---- MODULE Spec2Model ----
(***************************************************************************)
(* Model of the multi-provider search orchestrator (ARQV30 Enhanced v3.0): *)
(* the credential pool of RealSearchOrchestrator, its provider adapters    *)
(* and execute_massive_real_search, and the extraction pipeline of         *)
(* AlibabaWebSailorAgent.                                                  *)
(*                                                                         *)
(* The specifications share the state:                                     *)
(*   SpecPool    adapters called as coroutines of one event loop; each     *)
(*               call of get_next_api_key runs without suspension;         *)
(*   SpecThreads get_next_api_key called from the per-request background   *)
(*               threads of the workflow routes, one step per statement;   *)
(*   Spec        runs of execute_massive_real_search on one event loop;    *)
(*   SpecFn      one direct call of a function of its arguments alone;     *)
(*   SpecNav     one call of navigate_and_research_deep;                   *)
(*   SpecCapture capture_screenshot called by the workflow threads on the  *)
(*               global visual_content_capture;                            *)
(*   SpecCollect one run of execute_massive_collection;                    *)
(*   SpecModules one call of generate_all_modules;                         *)
(*   SpecWorkflow the background threads of start_step1_collection.        *)
(***************************************************************************)
EXTENDS Integers, Sequences, FiniteSets, TLC

(***************************************************************************)
(* Bounds of the model.                                                    *)
(***************************************************************************)
MaxKeys == 2
MaxCalls == 4
MaxThreadCalls == 3
MaxSessions == 2
MaxResults == 2
MaxKeywords == 13
MaxItems == 2
MaxMerged == 3
MaxUrls == 2
MaxCaptures == 2
MaxModules == 6
MaxRequests == 2

(***************************************************************************)
(* Provider names.                                                         *)
(***************************************************************************)
\* _load_all_api_keys: the providers whose credentials are read
LoadedProviders ==
    {"FIRECRAWL", "JINA", "GOOGLE", "EXA", "SERPER", "YOUTUBE", "SUPADATA", "X"}

\* the adapters that take a credential from the pool (_search_<provider>)
KeyedAdapters ==
    {"FIRECRAWL", "JINA", "GOOGLE", "EXA", "SERPER", "YOUTUBE", "SUPADATA"}

\* execute_massive_real_search, phase 2: the order the web tasks are appended
WebOrder == <<"FIRECRAWL", "JINA", "GOOGLE", "EXA", "SERPER">>

\* execute_massive_real_search, phase 3: the social tasks (SUPADATA is
\* commented out in the source)
SocialOrder == <<"YOUTUBE">>

Range(s) == {s[i] : i \in DOMAIN s}

None == <<>>

\* no provider name
NoProvider == ""

\* the Python slice s[:n]
Take(s, n) == IF Len(s) <= n THEN s ELSE SubSeq(s, 1, n)

(***************************************************************************)
(* The environment: the set of credential variables that are set.          *)
(* <<p, 0>> is p_API_KEY, <<p, n>> is p_API_KEY_n.                         *)
(***************************************************************************)
\* the numbered keys read by the while loop: 1, 2, ... up to the first gap
RECURSIVE NumberedKeys(_, _, _)
NumberedKeys(e, p, counter) ==
    IF <<p, counter>> \in e
    THEN <<(<<p, counter>>)>> \o NumberedKeys(e, p, counter + 1)
    ELSE <<>>

\* the key list of one provider: the main key, then the numbered keys
ProviderKeys(e, p) ==
    (IF <<p, 0>> \in e THEN <<(<<p, 0>>)>> ELSE <<>>) \o NumberedKeys(e, p, 1)

\* _load_all_api_keys: only providers with at least one key get an entry
LoadAllApiKeys(e) ==
    [p \in {q \in LoadedProviders : ProviderKeys(e, q) # <<>>} |->
        ProviderKeys(e, p)]

\* an environment giving the providers of f the pool sizes f[p]
EnvOf(f) == {ps \in (DOMAIN f) \X (0..(MaxKeys - 1)) : ps[2] < f[ps[1]]}

VARIABLES
    api_keys,       \* self.api_keys: provider -> list of credentials
    cse_id,         \* whether GOOGLE_CSE_ID is set
    key_indices,    \* self.key_indices: provider -> rotation cursor
    api_rotations,  \* self.session_stats['api_rotations']
    issued,         \* history: provider -> credentials returned, in order
    calls,          \* history: number of get_next_api_key calls started
    task,           \* adapter coroutines: provider -> state
    last,           \* the last adapter return: provider and value
    tpc,            \* thread -> position inside get_next_api_key
    tprov,          \* thread -> the provider argument
    tidx,           \* thread -> local current_index
    tkey,           \* thread -> local key
    ttmp,           \* thread -> value read by the += of api_rotations
    pc,             \* position of the event loop in execute_massive_real_search
    sessions,       \* number of runs started on the global orchestrator
    doc,            \* search_results of the current run
    first_returned, \* history: the adapter of the current wave that returned first
    issued_at_start,\* history: the credentials issued before the current run started
    fn,             \* direct call of a function: its name and arguments
    out,            \* the value the direct call returned
    npc,            \* position in navigate_and_research_deep
    queue,          \* the search results still to be processed
    all_content,    \* all_content of navigate_and_research_deep
    ext,            \* the running _extract_content_multi_strategy call
    attempts,       \* history: the strategies attempted for the current URL
    captures,       \* history: the URLs a screenshot was requested for
    depth_levels,   \* the depth_levels argument of navigate_and_research_deep
    research,       \* the value navigate_and_research_deep returned
    driver,         \* visual_content_capture.driver: 0 is None, else an instance
    browsers,       \* history: the browser instances launched, in order
    cap,            \* thread -> the locals and position of its capture_screenshot call
    files,          \* output path -> the file stored there
    captured,       \* history: the requests a call answered with success
    started,        \* history: number of capture_screenshot calls started
    overlapped,     \* history: whether a call started while another was running
    viral,          \* the last _capture_viral_screenshots call: argument and outcome
    mpc,            \* position in execute_massive_collection
    massive_data,   \* massive_data of the run
    phases,         \* history: the phases the run has entered, in order
    failed,         \* history: the phases in which a call raised
    storage,        \* history: what was written to disk or handed to auto_save_manager
    mexc,           \* the exception the outer except caught
    mret,           \* the value execute_massive_collection returned
    nested,         \* history: the nested navigate_and_research_deep calls
    gen,            \* the call of generate_all_modules: position, results, history
    wf              \* the background threads of start_step1_collection

poolVars == <<api_keys, cse_id, key_indices, api_rotations, issued, calls>>
taskVars == <<task, last>>
threadVars == <<tpc, tprov, tidx, tkey, ttmp>>
runVars == <<pc, sessions, doc>>
histVars == <<first_returned, issued_at_start>>
fnVars == <<fn, out>>
navVars == <<npc, queue, all_content, ext, attempts, captures, depth_levels, research>>
capVars == <<driver, browsers, cap, files, captured, started, overlapped, viral>>
colVars == <<mpc, massive_data, phases, failed, storage, mexc, mret>>
recVars == <<nested, gen, wf>>
extVars == <<capVars, colVars, recVars>>
otherVars == <<fnVars, navVars, extVars>>
vars == <<poolVars, taskVars, threadVars, runVars, histVars, otherVars>>

Threads == {"t1", "t2"}

(***************************************************************************)
(* get_next_api_key                                                        *)
(***************************************************************************)
\* line 95: provider not in self.api_keys or not self.api_keys[provider]
HasPool(p) == p \in DOMAIN api_keys /\ Len(api_keys[p]) > 0

AdvanceIndexStuck(current_index, n) == current_index

AdvanceIndexNoWrap(current_index, n) == current_index + 1

\* line 105: (current_index + 1) % len(keys)
AdvanceIndex(current_index, n) == (current_index + 1) % n

\* line 102: keys[current_index] (Python lists are 0-based)
KeyAt(p, current_index) == api_keys[p][current_index + 1]

\* lines 108-110: the counter is created at 0, then incremented
CountRotation(rot, p) ==
    IF p \in DOMAIN rot
    THEN [rot EXCEPT ![p] = @ + 1]
    ELSE [q \in DOMAIN rot \cup {p} |-> IF q = p THEN 1 ELSE rot[q]]

\* the value get_next_api_key(p) returns when it runs without interruption
GetNextApiKey(p) ==
    IF ~HasPool(p) THEN None ELSE KeyAt(p, key_indices[p])

\* the effect of get_next_api_key(p) on the pool when it runs without
\* interruption (one coroutine step of the event loop)
RotatePool(p) ==
    IF ~HasPool(p)
    THEN /\ UNCHANGED <<key_indices, api_rotations, issued>>
    ELSE /\ key_indices' =
                [key_indices EXCEPT ![p] = AdvanceIndex(@, Len(api_keys[p]))]
         /\ api_rotations' = CountRotation(api_rotations, p)
         /\ issued' = [issued EXCEPT ![p] = Append(@, KeyAt(p, key_indices[p]))]

(***************************************************************************)
(* Provider adapters                                                       *)
(***************************************************************************)
\* the modules real_search_orchestrator.py imports (lines 8-17); re, which
\* _extract_search_results_from_content uses, is not among them
OrchestratorImports ==
    {"os", "logging", "asyncio", "aiohttp", "time", "json"}

\* the names services/alibaba_websailor.py defines at module level
WebSailorExports == {"AlibabaWebSailorAgent", "alibaba_websailor_agent"}

Failure(err) == [success |-> FALSE, error |-> err]

Success(p, results) == [success |-> TRUE, provider |-> p, results |-> results]

NoUrl == [id |-> 0, form |-> "none"]

\* The i-th record a provider answers with.  A URL is an identity and a
\* spelling: GOOGLE and SERPER overlap in identical URLs, EXA returns the
\* URLs of GOOGLE in another spelling (case, scheme or trailing slash),
\* the second SERPER item carries no link, video URLs are disjoint.
UrlOf(p, i) ==
    CASE p = "GOOGLE" -> [id |-> i, form |-> "plain"]
      [] p = "EXA" -> [id |-> i, form |-> "variant"]
      [] p = "SERPER" -> IF i = 2 THEN NoUrl ELSE [id |-> i + 1, form |-> "plain"]
      [] p = "YOUTUBE" -> [id |-> 100 + i, form |-> "plain"]
      [] OTHER -> [id |-> 200 + i, form |-> "plain"]

\* the record an adapter builds from one item of the response
Hit(p, i) == [url |-> UrlOf(p, i), source |-> p]

Hits(p, n) == [i \in 1..n |-> Hit(p, i)]

\* what a provider can answer to one request
Responses ==
    {[kind |-> k, n |-> 0] : k \in {"transport_error", "http_error", "bad_shape"}}
    \cup {[kind |-> "ok", n |-> n] : n \in 0..MaxResults}

\* _extract_search_results_from_content: re.findall raises NameError
ExtractSearchResultsFromContent(p, n) ==
    IF "re" \notin OrchestratorImports THEN "NameError" ELSE Hits(p, n)

\* _search_firecrawl, after the credential was taken
SearchFirecrawl(resp) ==
    IF resp.kind = "transport_error" THEN Failure("exception")
    ELSE IF resp.kind = "http_error" THEN Failure("HTTP")
    ELSE IF resp.kind = "bad_shape" THEN Failure("exception")
    ELSE IF ExtractSearchResultsFromContent("FIRECRAWL", resp.n) = "NameError"
         THEN Failure("exception")
         ELSE Success("FIRECRAWL", ExtractSearchResultsFromContent("FIRECRAWL", resp.n))

\* the results one search URL of _search_jina adds: every failure inside
\* the loop is caught by the inner except and the URL is skipped
JinaUrlResults(resp) ==
    IF resp.kind # "ok" THEN <<>>
    ELSE IF ExtractSearchResultsFromContent("JINA", resp.n) = "NameError"
         THEN <<>>
         ELSE ExtractSearchResultsFromContent("JINA", resp.n)

\* the search URLs _search_jina requests one after the other
JinaSearchUrls == <<"google", "bing", "yahoo">>

\* _search_jina after its loop: success with the first 20 results
SearchJina(results) == Success("JINA", Take(results, 20))

\* _search_google, _search_exa, _search_serper, _search_supadata after the
\* credential was taken
SearchJson(p, resp) ==
    IF resp.kind = "transport_error" THEN Failure("exception")
    ELSE IF resp.kind = "http_error" THEN Failure("HTTP")
    ELSE IF resp.kind = "bad_shape" THEN Failure("exception")
    ELSE Success(p, Hits(p, resp.n))

\* _search_youtube after the credential was taken
SearchYoutube(resp) ==
    IF resp.kind = "transport_error" THEN Failure("exception")
    ELSE IF resp.kind = "http_error" THEN Failure("HTTP")
    ELSE IF resp.kind = "bad_shape" THEN Failure("exception")
    ELSE [success |-> TRUE, provider |-> "YOUTUBE", platform |-> "youtube",
          results |-> Hits("YOUTUBE", resp.n)]

\* the number of requests an adapter issues per query
RequestCount(p) == IF p = "JINA" THEN Len(JinaSearchUrls) ELSE 1

Idle == [st |-> "idle", key |-> None, req |-> 0, acc |-> <<>>, ret |-> None]

Returned(tk, ret) ==
    [st |-> "done", key |-> tk.key, req |-> tk.req, acc |-> <<>>, ret |-> ret]

\* One request of the adapter coroutine tk of provider p is answered by
\* resp: the coroutine issues its next request or returns.
AnswerTask(tk, p, resp) ==
    CASE p = "FIRECRAWL" -> Returned(tk, SearchFirecrawl(resp))
      [] p = "JINA" ->
            IF tk.req + 1 < RequestCount(p)
            THEN [tk EXCEPT !.req = @ + 1, !.acc = @ \o JinaUrlResults(resp)]
            ELSE Returned(tk, SearchJina(tk.acc \o JinaUrlResults(resp)))
      [] p = "YOUTUBE" -> Returned(tk, SearchYoutube(resp))
      [] OTHER -> Returned(tk, SearchJson(p, resp))

NoCredentialProceeds(p, key) == FALSE

\* the early return of an adapter: "if not api_key" (GOOGLE: or not cx)
NoCredential(p, key) == key = None \/ (p = "GOOGLE" /\ ~cse_id)

\* _search_alibaba_websailor: the import of the name alibaba_websailor
\* raises ImportError, which the adapter converts
SearchAlibabaWebsailor ==
    IF "alibaba_websailor" \notin WebSailorExports
    THEN Failure("unavailable")
    ELSE Failure("exception")

(***************************************************************************)
(* Initial states                                                          *)
(***************************************************************************)
InitPool(configurable, sizes) ==
    /\ \E f \in [configurable -> sizes] : api_keys = LoadAllApiKeys(EnvOf(f))
    /\ cse_id \in BOOLEAN
    /\ key_indices = [p \in DOMAIN api_keys |-> 0]
    /\ api_rotations = <<>>
    /\ issued = [p \in LoadedProviders |-> <<>>]
    /\ calls = 0

InitTasks ==
    /\ task = [p \in KeyedAdapters |-> Idle]
    /\ last = None

InitThreads ==
    /\ tpc = [t \in Threads |-> "idle"]
    /\ tprov = [t \in Threads |-> "FIRECRAWL"]
    /\ tidx = [t \in Threads |-> 0]
    /\ tkey = [t \in Threads |-> None]
    /\ ttmp = [t \in Threads |-> 0]

InitRun ==
    /\ pc = "idle"
    /\ sessions = 0
    /\ doc = None
    /\ first_returned = NoProvider
    /\ issued_at_start = 0

InitFn ==
    /\ fn = None
    /\ out = None

InitNav ==
    /\ npc = "idle"
    /\ queue = <<>>
    /\ all_content = <<>>
    /\ ext = None
    /\ attempts = <<>>
    /\ captures = <<>>
    /\ depth_levels = 1
    /\ research = None

CaptureUrls == {"u1", "u2"}

CaptureSessions == {"s1"}

\* the (url, session) pairs a screenshot is requested for
CaptureRequests == {[url |-> u, session |-> s] : u \in CaptureUrls, s \in CaptureSessions}

\* the output_path the caller builds: under the directory of the session,
\* named after what the URL serves
OutputPath(url, session) == <<session, url>>

CapThreads == {1, 2}

\* a thread that is not inside capture_screenshot
NoCapture == [pc |-> "idle"]

\* VisualContentCapture.__init__, and nothing captured yet
InitCapture ==
    /\ driver = 0
    /\ browsers = <<>>
    /\ cap = [t \in CapThreads |-> NoCapture]
    /\ files = [p \in {OutputPath(r.url, r.session) : r \in CaptureRequests} |-> "absent"]
    /\ captured = {}
    /\ started = 0
    /\ overlapped = FALSE
    /\ viral = None

\* before execute_massive_collection is called
InitCollect ==
    /\ mpc = "idle"
    /\ massive_data = None
    /\ phases = <<>>
    /\ failed = {}
    /\ storage = <<>>
    /\ mexc = ""
    /\ mret = None

\* no call of generate_all_modules yet
InitModules ==
    gen = [pc |-> "idle", i |-> 0, results |-> None, attempts |-> <<>>,
           errors |-> <<>>]

\* no request of start_step1_collection yet
InitWorkflow == wf = <<>>

InitExt == InitCapture /\ InitCollect /\ nested = <<>> /\ InitModules /\ InitWorkflow

InitOther == InitFn /\ InitNav /\ InitExt

(***************************************************************************)
(* SpecPool: adapters as coroutines of one event loop                      *)
(***************************************************************************)
PoolConfigurable == {"FIRECRAWL", "GOOGLE", "YOUTUBE"}

\* the first segment of an adapter coroutine, up to its first suspension
AdapterStart(p) ==
    /\ task[p].st = "idle"
    /\ calls < MaxCalls
    /\ calls' = calls + 1
    /\ RotatePool(p)
    /\ IF NoCredential(p, GetNextApiKey(p))
       THEN /\ task' = [task EXCEPT ![p] = Idle]
            /\ last' = [provider |-> p, ret |-> Failure("no_key")]
       ELSE /\ task' = [task EXCEPT ![p] =
                          [Idle EXCEPT !.st = "inflight", !.key = GetNextApiKey(p)]]
            /\ UNCHANGED last
    /\ UNCHANGED <<api_keys, cse_id, threadVars, histVars, otherVars, runVars>>

\* a request of an adapter is answered; when the coroutine returns, its
\* value goes to the caller
AdapterAnswer(p) ==
    /\ task[p].st = "inflight"
    /\ \E resp \in Responses :
          LET tk == AnswerTask(task[p], p, resp)
          IN IF tk.st = "done"
             THEN /\ last' = [provider |-> p, ret |-> tk.ret]
                  /\ task' = [task EXCEPT ![p] = Idle]
             ELSE /\ task' = [task EXCEPT ![p] = tk]
                  /\ UNCHANGED last
    /\ UNCHANGED <<poolVars, threadVars, histVars, otherVars, runVars>>

InitPoolSpec ==
    InitPool(PoolConfigurable, 0..MaxKeys) /\ InitTasks /\ InitThreads /\ InitRun
    /\ InitOther

NextPool ==
    \/ \E p \in KeyedAdapters : AdapterStart(p)
    \/ \E p \in KeyedAdapters : AdapterAnswer(p)

SpecPool == InitPoolSpec /\ [][NextPool]_vars

(***************************************************************************)
(* SpecThreads: get_next_api_key called by the background threads that     *)
(* the workflow routes start per request (execute_collection), all on the  *)
(* global real_search_orchestrator.  The method holds no lock, so a thread *)
(* switch can fall between any two of its statements.                      *)
(***************************************************************************)
ThreadConfigurable == {"FIRECRAWL", "GOOGLE"}

ThreadProviders == {"FIRECRAWL", "GOOGLE", "JINA"}

\* lines 93-98: the call and the guard of line 95
Call(t, p) ==
    /\ tpc[t] = "idle"
    /\ calls < MaxThreadCalls
    /\ calls' = calls + 1
    /\ tprov' = [tprov EXCEPT ![t] = p]
    /\ IF ~HasPool(p)
       THEN /\ tkey' = [tkey EXCEPT ![t] = None]
            /\ UNCHANGED tpc
       ELSE /\ tpc' = [tpc EXCEPT ![t] = "read"]
            /\ UNCHANGED tkey
    /\ UNCHANGED <<api_keys, cse_id, key_indices, api_rotations, issued,
                   taskVars, runVars, histVars, otherVars, tidx, ttmp>>

\* lines 99-102: current_index = self.key_indices[provider]; key = keys[...]
ReadIndex(t) ==
    /\ tpc[t] = "read"
    /\ tidx' = [tidx EXCEPT ![t] = key_indices[tprov[t]]]
    /\ tkey' = [tkey EXCEPT ![t] = KeyAt(tprov[t], key_indices[tprov[t]])]
    /\ tpc' = [tpc EXCEPT ![t] = "advance"]
    /\ UNCHANGED <<poolVars, taskVars, runVars, histVars, otherVars, tprov, ttmp>>

\* line 105: self.key_indices[provider] = (current_index + 1) % len(keys)
Advance(t) ==
    /\ tpc[t] = "advance"
    /\ key_indices' = [key_indices EXCEPT ![tprov[t]] =
                          AdvanceIndex(tidx[t], Len(api_keys[tprov[t]]))]
    /\ tpc' = [tpc EXCEPT ![t] = "stat_init"]
    /\ UNCHANGED <<api_keys, cse_id, api_rotations, issued, calls, taskVars,
                   runVars, histVars, otherVars,
                   tprov, tidx, tkey, ttmp>>

\* lines 108-109: create the counter when it is missing
StatInit(t) ==
    /\ tpc[t] = "stat_init"
    /\ api_rotations' =
           IF tprov[t] \in DOMAIN api_rotations
           THEN api_rotations
           ELSE [q \in DOMAIN api_rotations \cup {tprov[t]} |->
                    IF q = tprov[t] THEN 0 ELSE api_rotations[q]]
    /\ tpc' = [tpc EXCEPT ![t] = "stat_read"]
    /\ UNCHANGED <<api_keys, cse_id, key_indices, issued, calls, taskVars,
                   runVars, histVars, otherVars,
                   tprov, tidx, tkey, ttmp>>

\* line 110, the read of the in-place addition
StatRead(t) ==
    /\ tpc[t] = "stat_read"
    /\ ttmp' = [ttmp EXCEPT ![t] = api_rotations[tprov[t]]]
    /\ tpc' = [tpc EXCEPT ![t] = "stat_write"]
    /\ UNCHANGED <<poolVars, taskVars, runVars, histVars, otherVars, tprov, tidx, tkey>>

\* line 110, the store of the in-place addition, and the return of line 113
StatWrite(t) ==
    /\ tpc[t] = "stat_write"
    /\ api_rotations' = [api_rotations EXCEPT ![tprov[t]] = ttmp[t] + 1]
    /\ issued' = [issued EXCEPT ![tprov[t]] = Append(@, tkey[t])]
    /\ tpc' = [tpc EXCEPT ![t] = "idle"]
    /\ UNCHANGED <<api_keys, cse_id, key_indices, calls, taskVars, runVars, histVars, otherVars,
                   tprov, tidx, tkey, ttmp>>

InitThreadSpec ==
    InitPool(ThreadConfigurable, 0..MaxKeys) /\ InitTasks /\ InitThreads /\ InitRun
    /\ InitOther

NextThreads ==
    \/ \E t \in Threads, p \in ThreadProviders : Call(t, p)
    \/ \E t \in Threads : ReadIndex(t)
    \/ \E t \in Threads : Advance(t)
    \/ \E t \in Threads : StatInit(t)
    \/ \E t \in Threads : StatRead(t)
    \/ \E t \in Threads : StatWrite(t)

SpecThreads == InitThreadSpec /\ [][NextThreads]_vars

(***************************************************************************)
(* Spec: execute_massive_real_search on the event loop of one workflow     *)
(* thread; the global orchestrator serves one run after the other.         *)
(***************************************************************************)
RunConfigurable == {"FIRECRAWL", "JINA", "GOOGLE", "EXA", "SERPER", "YOUTUBE"}

\* lines 127-144: the result structure
NewDocument(session_id) ==
    [session_id |-> session_id,
     providers_used |-> <<>>,
     web_results |-> <<>>,
     social_results |-> <<>>,
     youtube_results |-> <<>>,
     viral_content |-> <<>>,
     screenshots_captured |-> <<>>,
     statistics |-> [total_sources |-> 0, unique_urls |-> 0,
                     content_extracted |-> 0, api_calls_made |-> 0]]

\* the providers of an order whose task is appended ('P' in self.api_keys)
Enabled(order) == SelectSeq(order, LAMBDA p : p \in DOMAIN api_keys)

\* a gather that gives up the whole wave when one of its values is a failure
MergeWebFailFast(d, rets) ==
    IF \E i \in DOMAIN rets : ~rets[i].success THEN d
    ELSE [d EXCEPT !.web_results = @ \o rets[1].results]

\* lines 184-191: the loop over the values gather returned, in task order
RECURSIVE MergeWeb(_, _)
MergeWeb(d, rets) ==
    IF rets = <<>> THEN d
    ELSE LET result == Head(rets)
             merged ==
                 IF result.success /\ result.results # <<>>
                 THEN [d EXCEPT
                         !.web_results = @ \o result.results,
                         !.providers_used = Append(@, result.provider)]
                 ELSE d
         IN MergeWeb(merged, Tail(rets))

\* lines 209-218: the loop over the values of the social wave
RECURSIVE MergeSocial(_, _)
MergeSocial(d, rets) ==
    IF rets = <<>> THEN d
    ELSE LET result == Head(rets)
             merged ==
                 IF ~result.success THEN d
                 ELSE IF "platform" \in DOMAIN result /\ result.platform = "youtube"
                      THEN [d EXCEPT !.youtube_results = @ \o result.results]
                      ELSE [d EXCEPT !.social_results = @ \o result.results]
         IN MergeSocial(merged, Tail(rets))

\* item.get(name, 0)
Metric(item, name) == IF name \in DOMAIN item THEN item[name] ELSE 0

\* a selection that needs the thresholds to be exceeded
IdentifyViralContentStrict(items) ==
    SelectSeq(items, LAMBDA item :
        \/ Metric(item, "likes") > 1000
        \/ Metric(item, "comments") > 100
        \/ Metric(item, "shares") > 50)

\* a selection that needs a metric to sit exactly on its threshold
IdentifyViralContentExact(items) ==
    SelectSeq(items, LAMBDA item :
        \/ Metric(item, "likes") = 1000
        \/ Metric(item, "comments") = 100
        \/ Metric(item, "shares") = 50)

\* _identify_viral_content
IdentifyViralContent(items) ==
    SelectSeq(items, LAMBDA item :
        \/ Metric(item, "likes") >= 1000
        \/ Metric(item, "comments") >= 100
        \/ Metric(item, "shares") >= 50)

RECURSIVE SumValues(_)
SumValues(f) ==
    IF DOMAIN f = {} THEN 0
    ELSE LET k == CHOOSE k \in DOMAIN f : TRUE
         IN f[k] + SumValues([q \in DOMAIN f \ {k} |-> f[q]])

\* the URLs kept apart by the position of their record: nothing is merged
UniqueUrlsByPosition(all_results) ==
    {<<i, all_results[i].url>> : i \in DOMAIN all_results}
    \ {<<i, NoUrl>> : i \in DOMAIN all_results}

\* line 243: set(r.get('url', '') for r in all_results if r.get('url'))
UniqueUrls(all_results) ==
    {all_results[i].url : i \in DOMAIN all_results} \ {NoUrl}

\* statistics that count the web results only
StatisticsOfWebResults(d) ==
    [total_sources |-> Len(d.web_results),
     unique_urls |-> Cardinality(UniqueUrls(d.web_results)),
     content_extracted |-> 0,
     api_calls_made |-> SumValues(api_rotations)]

\* lines 242-251: the final statistics
Statistics(d) ==
    LET all_results == d.web_results \o d.social_results \o d.youtube_results
    IN [total_sources |-> Len(all_results),
        unique_urls |-> Cardinality(UniqueUrls(all_results)),
        content_extracted |-> 0,
        api_calls_made |-> SumValues(api_rotations)]

\* the number of credentials get_next_api_key has returned so far
IssuedTotal == SumValues([p \in LoadedProviders |-> Len(issued[p])])

Pending == [Idle EXCEPT !.st = "pending"]

\* a merge that takes the values as they arrive: the value of the adapter
\* that returned first comes first
WaveReturnsFirstArrived(order) ==
    IF first_returned = NoProvider
    THEN [i \in DOMAIN Enabled(order) |-> task[Enabled(order)[i]].ret]
    ELSE LET rest == SelectSeq(Enabled(order), LAMBDA p : p # first_returned)
         IN <<task[first_returned].ret>> \o [i \in DOMAIN rest |-> task[rest[i]].ret]

\* the return values of a wave, in task order
WaveReturns(order) == [i \in DOMAIN Enabled(order) |-> task[Enabled(order)[i]].ret]

WaveDone(order) == \A p \in Range(Enabled(order)) : task[p].st = "done"

\* lines 115-144: a workflow thread calls execute_massive_real_search
StartSearch ==
    /\ pc \in {"idle", "returned"}
    /\ sessions < MaxSessions
    /\ sessions' = sessions + 1
    /\ doc' = NewDocument(sessions + 1)
    /\ task' = [p \in KeyedAdapters |-> Idle]
    /\ pc' = "phase1"
    /\ first_returned' = NoProvider
    /\ issued_at_start' = IssuedTotal
    /\ UNCHANGED <<poolVars, last, threadVars, otherVars>>

\* lines 146-154: the deep-navigation adapter, merged when it succeeded
Phase1 ==
    /\ pc = "phase1"
    /\ doc' = IF SearchAlibabaWebsailor.success
              THEN [doc EXCEPT
                      !.web_results = @ \o SearchAlibabaWebsailor.results,
                      !.providers_used = Append(@, "ALIBABA_WEBSAILOR")]
              ELSE doc
    /\ pc' = "phase2"
    /\ UNCHANGED <<poolVars, taskVars, threadVars, histVars, otherVars, sessions>>

\* a caller that goes on without awaiting the tasks it created
GoOnWithoutGather(order, wave, next) == next

\* "if web_tasks:" and "if social_tasks:" (lines 181, 206): the caller
\* awaits asyncio.gather when the wave has a task
AwaitGather(order, wave, next) == IF Enabled(order) # <<>> THEN wave ELSE next

\* lines 156-182: the web tasks are created and gathered
Phase2 ==
    /\ pc = "phase2"
    /\ task' = [p \in KeyedAdapters |->
                  IF p \in Range(Enabled(WebOrder)) THEN Pending ELSE task[p]]
    /\ pc' = AwaitGather(WebOrder, "web_wave", "phase3")
    /\ first_returned' = NoProvider
    /\ UNCHANGED <<poolVars, last, threadVars, issued_at_start, otherVars, sessions, doc>>

\* the adapter of the wave whose coroutine returned first, once tk, the task
\* of p after its step, is known
FirstReturned(p, tk) ==
    IF first_returned = NoProvider /\ tk.st = "done" THEN p ELSE first_returned

\* a gathered task runs up to its first suspension
TaskBegin(p) ==
    /\ pc \in {"web_wave", "social_wave"}
    /\ task[p].st = "pending"
    /\ calls' = calls + 1
    /\ RotatePool(p)
    /\ task' = [task EXCEPT ![p] =
                  IF NoCredential(p, GetNextApiKey(p))
                  THEN Returned(Idle, Failure("no_key"))
                  ELSE [Idle EXCEPT !.st = "inflight", !.key = GetNextApiKey(p)]]
    /\ first_returned' = FirstReturned(p, task'[p])
    /\ UNCHANGED <<api_keys, cse_id, last, threadVars, issued_at_start, otherVars, runVars>>

\* a request of a gathered task is answered: the task goes on or returns
TaskAnswer(p) ==
    /\ pc \in {"web_wave", "social_wave"}
    /\ task[p].st = "inflight"
    /\ \E resp \in Responses : task' = [task EXCEPT ![p] = AnswerTask(task[p], p, resp)]
    /\ first_returned' = FirstReturned(p, task'[p])
    /\ UNCHANGED <<poolVars, last, threadVars, issued_at_start, otherVars, runVars>>

\* asyncio.gather(*tasks, return_exceptions=True) resumes the caller
GatherReady(order) == WaveDone(order)

\* lines 182-191: gather returns and the web results are merged
JoinWeb ==
    /\ pc = "web_wave"
    /\ GatherReady(WebOrder)
    /\ doc' = MergeWeb(doc, WaveReturns(WebOrder))
    /\ pc' = "phase3"
    /\ UNCHANGED <<poolVars, taskVars, threadVars, histVars, otherVars, sessions>>

\* lines 193-207: the social tasks are created and gathered
Phase3 ==
    /\ pc = "phase3"
    /\ task' = [p \in KeyedAdapters |->
                  IF p \in Range(Enabled(SocialOrder)) THEN Pending ELSE task[p]]
    /\ pc' = AwaitGather(SocialOrder, "social_wave", "phase4")
    /\ first_returned' = NoProvider
    /\ UNCHANGED <<poolVars, last, threadVars, issued_at_start, otherVars, sessions, doc>>

\* lines 207-218: gather returns and the social results are merged
JoinSocial ==
    /\ pc = "social_wave"
    /\ GatherReady(SocialOrder)
    /\ doc' = MergeSocial(doc, WaveReturns(SocialOrder))
    /\ pc' = "phase4"
    /\ UNCHANGED <<poolVars, taskVars, threadVars, histVars, otherVars, sessions>>

\* The engagement of the item behind a record, as the platform counts it:
\* the first video YouTube finds has 1500 likes, 10 comments and no shares,
\* every other item is below the three thresholds.
Engagement(url) ==
    IF url = [id |-> 101, form |-> "plain"]
    THEN [likes |-> 1500, comments |-> 10, shares |-> 0]
    ELSE [likes |-> 10, comments |-> 0, shares |-> 0]

\* the methods class VisualContentCapture defines
VisualContentCaptureMethods ==
    {"_setup_driver", "_create_session_directory", "capture_screenshot",
     "cleanup_old_screenshots"}

\* line 659: visual_content_capture.capture_screenshot_async(url, session_id)
CaptureScreenshotAsync(url, session_id) ==
    IF "capture_screenshot_async" \in VisualContentCaptureMethods
    THEN "screenshot_path"
    ELSE "AttributeError"

\* _capture_viral_screenshots: the URLs a capture was attempted for and the
\* paths collected; an exception of one item is caught and logged
RECURSIVE CaptureViralScreenshots(_, _)
CaptureViralScreenshots(viral_content, session_id) ==
    IF viral_content = <<>>
    THEN [attempted |-> <<>>, captured_screenshots |-> <<>>]
    ELSE LET item == Head(viral_content)
             rest == CaptureViralScreenshots(Tail(viral_content), session_id)
             url == IF "url" \in DOMAIN item THEN item.url ELSE ""
         IN IF url = "" THEN rest
            ELSE [attempted |-> <<url>> \o rest.attempted,
                  captured_screenshots |->
                      IF CaptureScreenshotAsync(url, session_id) = "AttributeError"
                      THEN rest.captured_screenshots
                      ELSE <<CaptureScreenshotAsync(url, session_id)>>
                           \o rest.captured_screenshots]

\* lines 220-232: viral content and its screenshots.  No record of the
\* social wave carries likes, comments or shares (_search_youtube asks for
\* part=snippet and copies title, url, snippet, source and published_at;
\* only _search_supadata sets metrics, and its task is commented out), so
\* the list is empty and line 229 skips the capture.
Phase4 ==
    /\ pc = "phase4"
    /\ LET viral_content ==
               IdentifyViralContent(doc.youtube_results \o doc.social_results)
       IN doc' = IF viral_content = <<>>
                 THEN [doc EXCEPT !.viral_content = viral_content]
                 ELSE [doc EXCEPT
                         !.viral_content = viral_content,
                         !.screenshots_captured =
                             CaptureViralScreenshots(viral_content, doc.session_id)
                                 .captured_screenshots]
    /\ pc' = "phase6"
    /\ UNCHANGED <<poolVars, taskVars, threadVars, histVars, otherVars, sessions>>

\* lines 234-257: predictive analysis (its failures come back as a value),
\* final statistics, return
Phase6 ==
    /\ pc = "phase6"
    /\ \E insights \in {"insights", "failed"} :
           doc' = [k \in DOMAIN doc \cup {"predictive_insights"} |->
                     IF k = "predictive_insights" THEN insights
                     ELSE IF k = "statistics" THEN Statistics(doc)
                     ELSE doc[k]]
    /\ pc' = "returned"
    /\ UNCHANGED <<poolVars, taskVars, threadVars, histVars, otherVars, sessions>>

Init ==
    InitPool(RunConfigurable, {0, MaxKeys}) /\ InitTasks /\ InitThreads /\ InitRun
    /\ InitOther

Next ==
    \/ StartSearch
    \/ Phase1
    \/ Phase2
    \/ \E p \in KeyedAdapters : TaskBegin(p)
    \/ \E p \in KeyedAdapters : TaskAnswer(p)
    \/ JoinWeb
    \/ Phase3
    \/ JoinSocial
    \/ Phase4
    \/ Phase6

Spec == Init /\ [][Next]_vars

(***************************************************************************)
(* AlibabaWebSailorAgent._calculate_content_quality                        *)
(***************************************************************************)
\* self.preferred_domains (some of its entries) and self.blocked_domains
PreferredDomains == {"g1.globo.com", "exame.com"}

BlockedDomains == {"airbnb.com"}

\* A content is its length and the lower-cased words that occur in it; a
\* keyword stands for its lower-cased form, "" is the empty keyword.
\* keyword.lower() in content.lower(): the empty string occurs in every
\* string
Occurs(keyword, content) == keyword = "" \/ keyword \in content.words

\* bands that take a length of exactly 100, 500 or 1000 into the upper band
LengthPointsInclusive(length) ==
    IF length >= 1000 THEN 40
    ELSE IF length >= 500 THEN 20
    ELSE IF length >= 100 THEN 10
    ELSE 0

\* lines 388-394: the points for the length
LengthPoints(length) ==
    IF length > 1000 THEN 40
    ELSE IF length > 500 THEN 20
    ELSE IF length > 100 THEN 10
    ELSE 0

\* lines 397-401: context.get("keywords", []), 5 points per keyword found
RECURSIVE KeywordPoints(_, _)
KeywordPoints(query_keywords, content) ==
    IF query_keywords = <<>> THEN 0
    ELSE (IF Occurs(Head(query_keywords), content) THEN 5 ELSE 0)
         + KeywordPoints(Tail(query_keywords), content)

ContextKeywords(context) ==
    IF "keywords" \in DOMAIN context THEN context.keywords ELSE <<>>

\* lines 404, 408: any(domain in urlparse(url).netloc.lower() ...); a URL is
\* the set of listed domains that occur in its network location
InDomains(url, domains) == \E domain \in domains : domain \in url.netloc

\* the sum before the normalization of line 412
QualityPoints(content, url, context) ==
    LengthPoints(content.length)
    + KeywordPoints(ContextKeywords(context), content)
    + (IF InDomains(url, PreferredDomains) THEN 20 ELSE 0)
    - (IF InDomains(url, BlockedDomains) THEN 30 ELSE 0)

NormalizeScoreNone(score) == score

\* line 412: min(100.0, max(0.0, score))
NormalizeScore(score) ==
    LET lower == IF score > 0 THEN score ELSE 0
    IN IF lower < 100 THEN lower ELSE 100

CalculateContentQuality(content, url, context) ==
    NormalizeScore(QualityPoints(content, url, context))

(***************************************************************************)
(* SpecFn: one direct call of a function that computes a value from its    *)
(* arguments alone.                                                        *)
(***************************************************************************)
QualityLengths == {0, 100, 101, 500, 501, 1000, 1001}

Contents ==
    {[length |-> n, words |-> w] :
        n \in QualityLengths, w \in {{}, {"a"}}} \ {[length |-> 0, words |-> {"a"}]}

\* keyword lists: n times the same keyword
Contexts ==
    {[other |-> 0]}
    \cup {[keywords |-> [i \in 1..n |-> w]] : n \in 0..MaxKeywords, w \in {"", "a", "b"}}

Netlocs == {[netloc |-> d] : d \in SUBSET {"g1.globo.com", "airbnb.com"}}

Missing == -1

\* a social record with the metrics that are not Missing
Item(likes, comments, shares) ==
    [k \in {"url"} \cup (IF likes # Missing THEN {"likes"} ELSE {})
                  \cup (IF comments # Missing THEN {"comments"} ELSE {})
                  \cup (IF shares # Missing THEN {"shares"} ELSE {}) |->
        CASE k = "likes" -> likes
          [] k = "comments" -> comments
          [] k = "shares" -> shares
          [] OTHER -> 0]

Items ==
    {Item(l, c, s) : l \in {Missing, 999, 1000}, c \in {Missing, 99, 100},
                     s \in {Missing, 49, 50}}

SeqsUpTo(S, n) == UNION {[1..k -> S] : k \in 0..n}

MergedUrls ==
    {NoUrl, [id |-> 1, form |-> "plain"], [id |-> 1, form |-> "variant"],
     [id |-> 2, form |-> "plain"]}

ResultSets == SeqsUpTo({[url |-> u, source |-> "GOOGLE"] : u \in MergedUrls}, MaxMerged)

\* _calculate_content_quality(content, url, context)
CallCalculateContentQuality ==
    /\ fn = None
    /\ \E content \in Contents, url \in Netlocs, context \in Contexts :
          /\ fn' = [name |-> "_calculate_content_quality",
                    content |-> content, url |-> url, context |-> context]
          /\ out' = CalculateContentQuality(content, url, context)
    /\ UNCHANGED <<poolVars, taskVars, threadVars, runVars, histVars, navVars,
                   extVars>>

\* _identify_viral_content(social_media_results)
CallIdentifyViralContent ==
    /\ fn = None
    /\ \E items \in SeqsUpTo(Items, MaxItems) :
          /\ fn' = [name |-> "_identify_viral_content", items |-> items]
          /\ out' = IdentifyViralContent(items)
    /\ UNCHANGED <<poolVars, taskVars, threadVars, runVars, histVars, navVars,
                   extVars>>

MetricNames == {"likes", "comments", "shares"}

Increases == {1, 951}

\* the record with one metric increased; a metric the record lacks is read
\* as 0 by item.get(name, 0)
Raised(item, name, by) ==
    [k \in DOMAIN item \cup {name} |->
        IF k = name THEN Metric(item, name) + by ELSE item[k]]

\* _identify_viral_content for a record and for the record with one metric
\* increased
CallIdentifyViralContentRaised ==
    /\ fn = None
    /\ \E item \in Items, name \in MetricNames, by \in Increases :
          /\ fn' = [name |-> "_identify_viral_content_raised", item |-> item,
                    metric |-> name, raised |-> Raised(item, name, by)]
          /\ out' = [before |-> IdentifyViralContent(<<item>>),
                     after |-> IdentifyViralContent(<<Raised(item, name, by)>>)]
    /\ UNCHANGED <<poolVars, taskVars, threadVars, runVars, histVars, navVars,
                   extVars>>

\* line 243 for a result list and for the list merged with itself
CallUniqueUrls ==
    /\ fn = None
    /\ \E rs \in ResultSets :
          /\ fn' = [name |-> "unique_urls", all_results |-> rs]
          /\ out' = [once |-> UniqueUrls(rs), twice |-> UniqueUrls(rs \o rs)]
    /\ UNCHANGED <<poolVars, taskVars, threadVars, runVars, histVars, navVars,
                   extVars>>

\* the highest number of a numbered key in the environments tried
MaxNumbered == 3

\* the environments tried: any of PROVIDER_API_KEY (number 0) and
\* PROVIDER_API_KEY_1 .. _MaxNumbered of two providers set or unset
Environments == SUBSET ({"FIRECRAWL", "X"} \X (0..MaxNumbered))

\* RealSearchOrchestrator.__init__, lines 27-28: the pool and the cursors
CallLoadAllApiKeys ==
    /\ fn = None
    /\ \E e \in Environments :
          /\ fn' = [name |-> "_load_all_api_keys", env |-> e]
          /\ out' = [api_keys |-> LoadAllApiKeys(e),
                     key_indices |-> [p \in DOMAIN LoadAllApiKeys(e) |-> 0]]
    /\ UNCHANGED <<poolVars, taskVars, threadVars, runVars, histVars, navVars,
                   extVars>>

InitFnSpec ==
    /\ InitPool({}, {0}) /\ InitTasks /\ InitThreads /\ InitRun /\ InitOther

NextFn ==
    \/ CallCalculateContentQuality
    \/ CallIdentifyViralContent
    \/ CallIdentifyViralContentRaised
    \/ CallUniqueUrls
    \/ CallLoadAllApiKeys

SpecFn == InitFnSpec /\ [][NextFn]_vars

(***************************************************************************)
(* AlibabaWebSailorAgent._extract_content_multi_strategy and               *)
(* _fallback_extraction                                                    *)
(***************************************************************************)
\* self.jina_api_key = os.getenv("JINA_API_KEY")
JinaApiKey == "JINA" \in DOMAIN api_keys /\ <<"JINA", 0>> \in Range(api_keys["JINA"])

\* the methods class PredictiveAnalyticsService defines
PredictiveServiceMethods ==
    {"analyze_all_data", "analyze_content_chunk", "analyze_data_quality",
     "refine_search_queries"}

\* the context argument the navigation passes on
NavContext == [keywords |-> <<"a">>]

\* a text of n characters, padding of them leading or trailing whitespace
Text(n, padding) == [length |-> n, words |-> {"a"}, padding |-> padding]

\* len(content.strip())
StrippedLength(content) == content.length - content.padding

\* what the reader service answers: a transport error, or a status with a
\* body
JinaResponses ==
    {[kind |-> "error", status |-> 0, content |-> Text(0, 0)]}
    \cup {[kind |-> "response", status |-> st, content |-> Text(n, 0)] :
             st \in {200, 503}, n \in {100, 101}}

\* what extract_content_with_exa gives: an exception, None, or a text
ExaResponses ==
    {[kind |-> k, content |-> Text(0, 0)] : k \in {"error", "none"}}
    \cup {[kind |-> "text", content |-> Text(n, 0)] : n \in {50, 51}}
    \cup {[kind |-> "text", content |-> Text(52, 2)]}

\* what the page itself answers to the plain GET: an exception (transport,
\* raise_for_status, parser) or a document whose text, whitespace collapsed
\* by " ".join(text_content.split()), has n characters
PageResponses ==
    {[kind |-> "error", content |-> Text(0, 0)]}
    \cup {[kind |-> "text", content |-> Text(n, 0)] : n \in {50, 51}}

\* the dictionary a strategy builds when it accepts
ContentData(url, content, extraction_method) ==
    [success |-> TRUE,
     url |-> url,
     content |-> content,
     quality_score |-> CalculateContentQuality(content, url, NavContext),
     extraction_method |-> extraction_method]

\* line 247: content and len(content) > 100
JinaThreshold(content) == content.length > 100

\* lines 245-247: the reader accepts
JinaAccepts(resp) ==
    resp.kind = "response" /\ resp.status = 200 /\ JinaThreshold(resp.content)

\* line 325: content and len(content.strip()) > 50
ExaAccepts(resp) == resp.kind = "text" /\ StrippedLength(resp.content) > 50

\* line 363: len(content) > 50
SoupAccepts(resp) == resp.kind = "text" /\ resp.content.length > 50

\* lines 257-262: what the reader step notes in methods_tried
JinaNote(resp) ==
    IF resp.kind = "error" THEN <<"Jina (Erro)">>
    ELSE IF resp.status # 200 THEN <<"Jina (status)">>
    ELSE <<>>

\* one entry of the history of attempts: the strategy, whether it got a
\* text (status 200 for the reader), the length it measured, its verdict
Attempt(method, got_text, measured, accepted) ==
    [method |-> method, got_text |-> got_text, measured |-> measured,
     accepted |-> accepted]

NewExtraction(result) ==
    [url |-> result.url, engine |-> result.engine, step |-> "jina",
     content_data |-> None, methods_tried |-> <<>>, ret |-> None]

AfterJinaAlwaysFallback(accepted) == "exa"

\* line 265: the fallbacks run only when the reader gave no content_data
AfterJina(accepted) == IF accepted THEN "post" ELSE "exa"

\* lines 238-262: the reader service
TryJina ==
    /\ npc = "extract"
    /\ ext.step = "jina"
    /\ IF ~JinaApiKey
       THEN /\ ext' = [ext EXCEPT !.step = AfterJina(FALSE)]
            /\ UNCHANGED attempts
       ELSE \E resp \in JinaResponses :
               /\ ext' = [ext EXCEPT
                            !.step = AfterJina(JinaAccepts(resp)),
                            !.content_data =
                                IF JinaAccepts(resp)
                                THEN ContentData(ext.url, resp.content, "jina_reader")
                                ELSE None,
                            !.methods_tried = @ \o JinaNote(resp)]
               /\ attempts' = Append(attempts,
                                     Attempt("jina_reader",
                                             resp.kind = "response" /\ resp.status = 200,
                                             resp.content.length,
                                             JinaAccepts(resp)))
    /\ UNCHANGED <<poolVars, taskVars, threadVars, runVars, histVars, fnVars, extVars,
                   npc, queue, all_content, captures, depth_levels, research>>

\* lines 320-339: the secondary content API, when HAS_EXA and
\* exa_client.is_available()
TryExa ==
    /\ npc = "extract"
    /\ ext.step = "exa"
    /\ \E available \in BOOLEAN :
          IF ~available
          THEN /\ ext' = [ext EXCEPT !.step = "soup"]
               /\ UNCHANGED attempts
          ELSE \E resp \in ExaResponses :
                  /\ ext' = IF ExaAccepts(resp)
                            THEN [ext EXCEPT
                                    !.step = "post",
                                    !.content_data =
                                        ContentData(ext.url, resp.content, "exa"),
                                    !.methods_tried = Append(@, "exa")]
                            ELSE [ext EXCEPT !.step = "soup"]
                  /\ attempts' = Append(attempts,
                                        Attempt("exa", resp.kind = "text",
                                                StrippedLength(resp.content),
                                                ExaAccepts(resp)))
    /\ UNCHANGED <<poolVars, taskVars, threadVars, runVars, histVars, fnVars, extVars,
                   npc, queue, all_content, captures, depth_levels, research>>

\* lines 341-380 and 267-270: the raw HTML parse, then the note of the
\* outcome of the fallbacks in methods_tried
TryBeautifulSoup ==
    /\ npc = "extract"
    /\ ext.step = "soup"
    /\ \E resp \in PageResponses :
          /\ ext' = IF SoupAccepts(resp)
                    THEN [ext EXCEPT
                            !.step = "post",
                            !.content_data =
                                ContentData(ext.url, resp.content, "beautifulsoup"),
                            !.methods_tried = Append(@, "beautifulsoup")]
                    ELSE [ext EXCEPT
                            !.step = "post",
                            !.content_data = None,
                            !.methods_tried = Append(@, "Todos_Fallbacks_Falharam")]
          /\ attempts' = Append(attempts,
                                Attempt("beautifulsoup", resp.kind = "text",
                                        resp.content.length, SoupAccepts(resp)))
    /\ UNCHANGED <<poolVars, taskVars, threadVars, runVars, histVars, fnVars, extVars,
                   npc, queue, all_content, captures, depth_levels, research>>

\* f with the field k set to v, added when f has no such field
With(f, k, v) == [x \in DOMAIN f \cup {k} |-> IF x = k THEN v ELSE f[x]]

\* line 282: predictive_analytics_service.get_content_quality_score(content)
\* raises AttributeError, the class has no such method; estimate is what
\* such a method would answer
GetContentQualityScore(estimate) ==
    IF "get_content_quality_score" \notin PredictiveServiceMethods
    THEN "AttributeError"
    ELSE estimate

\* lines 272-299: the result of an accepted extraction.  The except of line
\* 296 ends the predictive block when the score cannot be obtained.
Accepted(e, estimate) ==
    LET noted == With(With(e.content_data, "methods_tried", e.methods_tried),
                      "is_preferred_source", InDomains(e.url, PreferredDomains))
    IN IF GetContentQualityScore(estimate) = "AttributeError"
       THEN noted
       ELSE With(noted, "quality_score_predictive", GetContentQualityScore(estimate))

\* lines 286-289: a screenshot is requested for a score above 80
CaptureRequested(estimate) ==
    /\ GetContentQualityScore(estimate) # "AttributeError"
    /\ GetContentQualityScore(estimate) > 80

\* the corpus with a record for every URL, extracted or not
CollectAlways(all, e, ret) ==
    Append(all, IF ret # None THEN ret
                ELSE [success |-> FALSE, url |-> e.url, content |-> Text(0, 0),
                      quality_score |-> 0])

\* lines 154-157: the navigation keeps the record of a successful extraction
Collect(all, e, ret) ==
    IF ret # None /\ ret.success
    THEN Append(all, With(With(ret, "search_engine", e.engine),
                          "content_length", ret.content.length))
    ELSE all

\* lines 272-303 and 154-178: _extract_content_multi_strategy returns and
\* the navigation goes on with the next search result
ExtractReturn ==
    /\ npc = "extract"
    /\ ext.step = "post"
    /\ \E estimate \in {80, 81} :
          LET ret == IF ext.content_data # None /\ ext.content_data.success
                     THEN Accepted(ext, estimate)
                     ELSE None
          IN /\ ext' = [ext EXCEPT !.step = "returned", !.ret = ret]
             /\ captures' = IF ret # None /\ CaptureRequested(estimate)
                            THEN Append(captures, ext.url)
                            ELSE captures
             /\ all_content' = Collect(all_content, ext, ret)
    /\ npc' = "level1"
    /\ UNCHANGED <<poolVars, taskVars, threadVars, runVars, histVars, fnVars, extVars,
                   queue, attempts, depth_levels, research>>

(***************************************************************************)
(* SpecNav: one call of AlibabaWebSailorAgent.navigate_and_research_deep   *)
(***************************************************************************)
\* lines 123-126
SearchEngines == {"Google Custom Search", "Serper API"}

\* a search result without "url" and without "link"
NoLink == [id |-> 0, netloc |-> {}]

\* what a search result can point to
HitUrls == {NoLink, [id |-> 1, netloc |-> {"g1.globo.com"}]}

\* line 144: the results of one engine that are processed, results[:5]
EngineHits(engine, results) ==
    [i \in DOMAIN Take(results, 5) |-> [engine |-> engine, url |-> results[i]]]

\* the values of the depth_levels argument
DepthLevels == 1..4

\* lines 104-141: the call; the engines run in a thread pool and their
\* results are processed engine by engine in the order of completion
NavStart ==
    /\ npc = "idle"
    /\ \E first \in SearchEngines, depth \in DepthLevels :
       \E r1, r2 \in SeqsUpTo(HitUrls, MaxUrls) :
          /\ Len(r1) + Len(r2) <= MaxUrls
          /\ queue' = EngineHits(first, r1)
                      \o EngineHits(CHOOSE e \in SearchEngines : e # first, r2)
          /\ depth_levels' = depth
    /\ npc' = "level1"
    /\ all_content' = <<>>
    /\ UNCHANGED <<poolVars, taskVars, threadVars, runVars, histVars, fnVars, extVars,
                   ext, attempts, captures, research>>

\* lines 144-152: the next search result; one without URL is skipped
NextResult ==
    /\ npc = "level1"
    /\ queue # <<>>
    /\ queue' = Tail(queue)
    /\ IF Head(queue).url = NoLink
       THEN UNCHANGED <<npc, ext, attempts>>
       ELSE /\ npc' = "extract"
            /\ ext' = NewExtraction(Head(queue))
            /\ attempts' = <<>>
    /\ UNCHANGED <<poolVars, taskVars, threadVars, runVars, histVars, fnVars, extVars,
                   all_content, captures, depth_levels, research>>

\* lines 188-204: the value of a nested call for a related query (depth 1);
\* it has the keys of _process_and_analyze_content and related_query
RelatedContent(i, total_documents) ==
    [related_query |-> i, total_documents |-> total_documents]

RECURSIVE SumLengths(_)
SumLengths(all) ==
    IF all = <<>> THEN 0 ELSE Head(all).content.length + SumLengths(Tail(all))

RECURSIVE SumQuality(_)
SumQuality(all) ==
    IF all = <<>> THEN 0 ELSE Head(all).quality_score + SumQuality(Tail(all))

\* _generate_emergency_research
GenerateEmergencyResearch ==
    [total_documents |-> 0, total_characters |-> 0,
     extracted_content_summary |-> <<>>, status |-> "emergency_fallback"]

\* _process_and_analyze_content; c["url"] raises KeyError for an entry
\* without that key, which the except of line 222 turns into the emergency
\* result
ProcessAndAnalyzeContent(all) ==
    IF \E i \in DOMAIN all : "url" \notin DOMAIN all[i]
    THEN GenerateEmergencyResearch
    ELSE [total_documents |-> Len(all),
          total_characters |-> SumLengths(all),
          average_quality_score |-> <<SumQuality(all), Len(all)>>,
          extracted_content_summary |->
              [i \in DOMAIN all |->
                  [url |-> all[i].url, length |-> all[i].content.length,
                   quality |-> all[i].quality_score]]]

\* _generate_related_queries: the query followed by one of three words
GenerateRelatedQueries == <<"tendencias", "mercado", "inovacoes">>

\* a nested call that passes on what is left of the caller's depth
NestedDepthLevelsRemaining(depth) == depth - 1

\* line 196: the depth_levels argument of the nested call
NestedDepthLevels(depth) == 1

\* lines 184-225: the related queries of level 3, each a nested call that
\* returns its own research, the final processing and the return
NavFinish ==
    /\ npc = "level1"
    /\ queue = <<>>
    /\ IF depth_levels > 2 /\ all_content # <<>>
       THEN LET related_queries == Take(GenerateRelatedQueries, 3)
            IN /\ \E docs \in [DOMAIN related_queries -> 0..1] :
                     all_content' =
                         all_content
                         \o [i \in DOMAIN related_queries |-> RelatedContent(i, docs[i])]
               /\ nested' = [i \in DOMAIN related_queries |->
                                [related_query |-> related_queries[i],
                                 depth_levels |-> NestedDepthLevels(depth_levels)]]
       ELSE UNCHANGED <<all_content, nested>>
    /\ research' = ProcessAndAnalyzeContent(all_content')
    /\ npc' = "done"
    /\ UNCHANGED <<poolVars, taskVars, threadVars, runVars, histVars, fnVars, capVars,
                   colVars, queue, ext, attempts, captures, depth_levels, gen, wf>>

InitNavSpec ==
    /\ InitPool({"JINA"}, 0..1) /\ InitTasks /\ InitThreads /\ InitRun /\ InitOther

NextNav ==
    \/ NavStart
    \/ NextResult
    \/ TryJina
    \/ TryExa
    \/ TryBeautifulSoup
    \/ ExtractReturn
    \/ NavFinish

SpecNav == InitNavSpec /\ [][NextNav]_vars

(***************************************************************************)
(* SpecCapture: capture_screenshot called on the global                    *)
(* visual_content_capture by the workflow threads, one step per access to  *)
(* self.driver or to the browser, and _capture_viral_screenshots           *)
(***************************************************************************)
outsideCapture ==
    <<poolVars, taskVars, threadVars, runVars, histVars, fnVars, navVars, colVars,
      recVars>>

\* the value of the except branch, lines 165-171; the message is the text
\* of line 163 around the exception
CaptureFailure(url) == [success |-> FALSE, url |-> url, error |-> "Erro ao capturar"]

\* the value of lines 151-160 (final_url, title, description and timestamp
\* are left out); filesize is what stat() reads from the file
CaptureSuccess(url, filepath, file) ==
    [success |-> TRUE, url |-> url, filepath |-> filepath, filesize |-> file]

\* a check that is content with a file that exists
FileCheckExists(file) == file # "absent"

\* line 148: screenshot_path.exists() and screenshot_path.stat().st_size > 0
FileCheck(file) == file = "image"

\* a browser instance as webdriver.Chrome starts it
NewBrowser(t) == [launcher |-> t, used_by |-> {}, quit_by |-> {}, alive |-> TRUE]

\* what _setup_driver raises, what a call on None raises, what a command
\* to an instance that has quit raises, what driver.get raises, what
\* mkdir or save_screenshot raises
CaptureErrors ==
    {"not_ready", "launch_failed", "timeout_config_failed", "AttributeError",
     "invalid_session", "navigation_timeout", "write_failed"}

\* an exception inside the try of lines 106-162: the except branch builds
\* the value to return, the finally branch follows
CaptureRaise(t, error) ==
    IF error \in CaptureErrors
    THEN [cap EXCEPT ![t].ret = CaptureFailure(cap[t].url), ![t].pc = "finally"]
    ELSE cap

\* the call returns the value it built
CaptureReturn(t) ==
    /\ cap' = [cap EXCEPT ![t].pc = "idle"]
    /\ captured' = IF cap[t].ret.success
                   THEN captured \cup {[url |-> cap[t].url, session |-> cap[t].session]}
                   ELSE captured

\* capture_screenshot(url, output_path) is called and tests self.driver in
\* line 109
CaptureBegin(t) ==
    /\ cap[t].pc = "idle"
    /\ started < MaxCaptures
    /\ viral = None
    /\ \E r \in CaptureRequests :
          cap' = [cap EXCEPT ![t] =
                    [pc |-> IF driver = 0 THEN "setup" ELSE "get",
                     url |-> r.url, session |-> r.session,
                     launched |-> FALSE, wrote |-> FALSE, cached |-> r \in captured,
                     ret |-> None]]
    /\ started' = started + 1
    /\ overlapped' = (overlapped \/ \E o \in CapThreads \ {t} : cap[o].pc # "idle")
    /\ UNCHANGED <<driver, browsers, files, captured, viral, outsideCapture>>

\* what can happen in _setup_driver: selenium_checker reports not ready,
\* both webdriver.Chrome calls raise, set_page_load_timeout raises on the
\* instance just started, or the instance is returned
SetupOutcomes == {"not_ready", "launch_failed", "timeout_config_failed", "configured"}

\* line 110: self.driver = self._setup_driver().  The time between the
\* test of line 109 and this assignment is the time the launch takes.
SetupDriver(t) ==
    /\ cap[t].pc = "setup"
    /\ \E o \in SetupOutcomes :
          IF o \in {"not_ready", "launch_failed"}
          THEN /\ cap' = CaptureRaise(t, o)
               /\ UNCHANGED <<browsers, driver>>
          ELSE /\ browsers' = Append(browsers, NewBrowser(t))
               /\ IF o = "configured"
                  THEN /\ driver' = Len(browsers) + 1
                       /\ cap' = [cap EXCEPT ![t].launched = TRUE, ![t].pc = "get"]
                  ELSE /\ UNCHANGED driver
                       /\ cap' = [CaptureRaise(t, o) EXCEPT ![t].launched = TRUE]
    /\ UNCHANGED <<files, captured, started, overlapped, viral, outsideCapture>>

\* lines 113-134: self.driver.get(url), the wait for the body (a timeout
\* of the wait is only logged), title, current_url, meta description
Get(t) ==
    /\ cap[t].pc = "get"
    /\ IF driver = 0
       THEN /\ cap' = CaptureRaise(t, "AttributeError")
            /\ UNCHANGED browsers
       ELSE IF ~browsers[driver].alive
       THEN /\ cap' = CaptureRaise(t, "invalid_session")
            /\ UNCHANGED browsers
       ELSE /\ browsers' = [browsers EXCEPT ![driver].used_by = @ \cup {t}]
            /\ \E o \in {"loaded", "readiness_timeout", "navigation_timeout"} :
                  cap' = IF o = "navigation_timeout"
                         THEN CaptureRaise(t, o)
                         ELSE [cap EXCEPT ![t].pc = "save"]
    /\ UNCHANGED <<driver, files, captured, started, overlapped, viral, outsideCapture>>

\* lines 137-162: the directory, save_screenshot, the check of the file
Save(t) ==
    /\ cap[t].pc = "save"
    /\ LET path == OutputPath(cap[t].url, cap[t].session)
       IN IF driver = 0
          THEN /\ cap' = CaptureRaise(t, "AttributeError")
               /\ UNCHANGED <<browsers, files>>
          ELSE IF ~browsers[driver].alive
          THEN /\ cap' = CaptureRaise(t, "invalid_session")
               /\ UNCHANGED <<browsers, files>>
          ELSE /\ browsers' = [browsers EXCEPT ![driver].used_by = @ \cup {t}]
               /\ \E o \in {"image", "empty", "not_written", "raises"} :
                     /\ files' = IF o \in {"image", "empty"}
                                 THEN [files EXCEPT ![path] = o] ELSE files
                     /\ cap' = IF o = "raises" THEN CaptureRaise(t, "write_failed")
                               ELSE [cap EXCEPT
                                       ![t].wrote = o \in {"image", "empty"},
                                       ![t].ret = IF FileCheck(files'[path])
                                                  THEN CaptureSuccess(cap[t].url, path,
                                                                      files'[path])
                                                  ELSE CaptureFailure(cap[t].url),
                                       ![t].pc = "finally"]
    /\ UNCHANGED <<driver, captured, started, overlapped, viral, outsideCapture>>

\* line 176: if self.driver
Finally(t) ==
    /\ cap[t].pc = "finally"
    /\ IF driver = 0
       THEN CaptureReturn(t)
       ELSE /\ cap' = [cap EXCEPT ![t].pc = "quit"]
            /\ UNCHANGED captured
    /\ UNCHANGED <<driver, browsers, files, started, overlapped, viral, outsideCapture>>

\* lines 177-181: self.driver.quit() inside its own try
Quit(t) ==
    /\ cap[t].pc = "quit"
    /\ IF driver = 0
       THEN UNCHANGED browsers
       ELSE \E o \in {"closed", "raises"} :
               browsers' = [browsers EXCEPT
                              ![driver].quit_by = @ \cup {t},
                              ![driver].alive = (@ /\ o = "raises")]
    /\ cap' = [cap EXCEPT ![t].pc = "clear"]
    /\ UNCHANGED <<driver, files, captured, started, overlapped, viral, outsideCapture>>

\* line 182: self.driver = None, and the return
Clear(t) ==
    /\ cap[t].pc = "clear"
    /\ driver' = 0
    /\ CaptureReturn(t)
    /\ UNCHANGED <<browsers, files, started, overlapped, viral, outsideCapture>>

\* viral records, with a URL, with an empty URL and without the key
ViralRecords ==
    {[url |-> u, likes |-> 1500] : u \in {"", "u1", "u2"}} \cup {[likes |-> 1500]}

\* _capture_viral_screenshots(viral_content, session_id).  The loop never
\* reaches capture_screenshot, so a behaviour holds either this call or
\* calls of capture_screenshot.
CallCaptureViralScreenshots ==
    /\ viral = None
    /\ started = 0
    /\ \E viral_content \in SeqsUpTo(ViralRecords, MaxItems) :
          viral' = [viral_content |-> viral_content,
                    returned |-> CaptureViralScreenshots(viral_content, "s1")]
    /\ UNCHANGED <<driver, browsers, cap, files, captured, started, overlapped,
                   outsideCapture>>

InitCaptureSpec ==
    /\ InitPool({}, {0}) /\ InitTasks /\ InitThreads /\ InitRun /\ InitOther

NextCapture ==
    \/ \E t \in CapThreads : CaptureBegin(t)
    \/ \E t \in CapThreads : SetupDriver(t)
    \/ \E t \in CapThreads : Get(t)
    \/ \E t \in CapThreads : Save(t)
    \/ \E t \in CapThreads : Finally(t)
    \/ \E t \in CapThreads : Quit(t)
    \/ \E t \in CapThreads : Clear(t)
    \/ CallCaptureViralScreenshots

SpecCapture == InitCaptureSpec /\ [][NextCapture]_vars

(***************************************************************************)
(* SpecCollect: one run of MassiveDataCollector.execute_massive_collection *)
(***************************************************************************)
outsideCollect ==
    <<poolVars, taskVars, threadVars, runVars, histVars, fnVars, navVars, capVars,
      recVars>>

\* lines 104-124 of massive_data_collector.py: the document at the start
NewMassiveData(session_id) ==
    [session_id |-> session_id,
     web_search_data |-> None,
     social_media_data |-> None,
     trends_data |-> None,
     supadata_results |-> None,
     visual_content |-> None,
     extracted_content |-> <<>>,
     screenshots |-> <<>>,
     statistics |-> [total_sources |-> 0, screenshot_count |-> 0]]

\* n records of a source
Records(source, n) == [i \in 1..n |-> [source |-> source, id |-> i]]

\* what search_api_manager.interleaved_search can return
WebSearchResults ==
    {[all_results |-> <<[success |-> TRUE, results |-> Records("web", n)]>>,
      successful_searches |-> 1] : n \in 1..MaxResults}
    \cup {[all_results |-> <<[success |-> FALSE, results |-> <<>>]>>,
           successful_searches |-> 0]}

\* what trendfinder_client.search can return
TrendResults ==
    {[success |-> TRUE, trends |-> Records("trend", n)] : n \in 0..MaxResults}
    \cup {[success |-> FALSE, error |-> "failed"]}

\* what supadata_client.search can return
SupadataResults ==
    {[success |-> TRUE, posts |-> Records("post", n)] : n \in 0..MaxResults}
    \cup {[success |-> FALSE, error |-> "failed"]}

\* what social_media_extractor.search_all_platforms can return
SocialResultsRaw ==
    {[success |-> TRUE, platforms |-> Records("social", n)] : n \in 0..MaxResults}
    \cup {[success |-> FALSE]}

\* lines 280-283: an exception inside the try of lines 120-278 ends the try
RaiseInPhase(phase, e) ==
    /\ failed' = failed \cup {phase}
    /\ mexc' = e
    /\ mpc' = "except"

\* execute_massive_collection(query, context, session_id) is called, by
\* collect_comprehensive_data (lines 43-84) or directly
StartCollection ==
    /\ mpc = "idle"
    /\ mret = None
    /\ massive_data' = NewMassiveData(1)
    /\ mpc' = "phase1"
    /\ UNCHANGED <<phases, failed, storage, mexc, mret, outsideCollect>>

\* lines 121-124: the web search
CollectPhase1 ==
    /\ mpc = "phase1"
    /\ phases' = Append(phases, "web_search")
    /\ \/ \E web_results \in WebSearchResults :
             /\ massive_data' = [massive_data EXCEPT !.web_search_data = web_results]
             /\ mpc' = "phase2"
             /\ UNCHANGED <<failed, mexc>>
       \/ /\ RaiseInPhase("web_search", "interleaved_search")
          /\ UNCHANGED massive_data
    /\ UNCHANGED <<storage, mret, outsideCollect>>

\* lines 126-133: trends
CollectPhase2 ==
    /\ mpc = "phase2"
    /\ phases' = Append(phases, "trends")
    /\ \/ /\ massive_data' = [massive_data EXCEPT
                                 !.trends_data = [success |-> FALSE,
                                                  error |-> "not configured"]]
          /\ mpc' = "phase3"
          /\ UNCHANGED <<failed, mexc>>
       \/ \E trends_results \in TrendResults :
             /\ massive_data' = [massive_data EXCEPT !.trends_data = trends_results]
             /\ mpc' = "phase3"
             /\ UNCHANGED <<failed, mexc>>
       \/ /\ RaiseInPhase("trends", "trendfinder_client")
          /\ UNCHANGED massive_data
    /\ UNCHANGED <<storage, mret, outsideCollect>>

\* lines 135-142: social data of Supadata
CollectPhase3 ==
    /\ mpc = "phase3"
    /\ phases' = Append(phases, "supadata")
    /\ \/ /\ massive_data' = [massive_data EXCEPT
                                 !.supadata_results = [success |-> FALSE,
                                                       error |-> "not configured"]]
          /\ mpc' = "phase4"
          /\ UNCHANGED <<failed, mexc>>
       \/ \E supadata_results \in SupadataResults :
             /\ massive_data' = [massive_data EXCEPT !.supadata_results = supadata_results]
             /\ mpc' = "phase4"
             /\ UNCHANGED <<failed, mexc>>
       \/ /\ RaiseInPhase("supadata", "supadata_client")
          /\ UNCHANGED massive_data
    /\ UNCHANGED <<storage, mret, outsideCollect>>

\* lines 150-165: social_results for what search_all_platforms returned
SocialResults(raw) ==
    IF raw.success
    THEN [success |-> TRUE, all_platforms_data |-> raw,
          total_posts |-> Len(raw.platforms)]
    ELSE [success |-> FALSE, error |-> "Falha na extracao de redes sociais",
          all_platforms_data |-> [platforms |-> <<>>], total_posts |-> 0]

\* lines 166-173: social_results when search_all_platforms raised
SocialError(e) ==
    [success |-> FALSE, error |-> e,
     all_platforms_data |-> [platforms |-> <<>>], total_posts |-> 0]

\* lines 144-174: the social networks, inside a try of their own
CollectPhase4 ==
    /\ mpc = "phase4"
    /\ phases' = Append(phases, "social")
    /\ \/ /\ \E raw \in SocialResultsRaw :
                massive_data' = [massive_data EXCEPT
                                   !.social_media_data = SocialResults(raw)]
          /\ UNCHANGED failed
       \/ /\ massive_data' = [massive_data EXCEPT
                                 !.social_media_data = SocialError("search_all_platforms")]
          /\ failed' = failed \cup {"social"}
    /\ mpc' = "phase5"
    /\ UNCHANGED <<storage, mexc, mret, outsideCollect>>

\* the URLs of the web results
WebUrls(web_results) ==
    IF web_results.all_results[1].success
    THEN web_results.all_results[1].results ELSE <<>>

\* line 178: visual_content_capture.select_top_urls(web_results, max_urls=8)
SelectTopUrls(web_results, max_urls) ==
    IF "select_top_urls" \in VisualContentCaptureMethods
    THEN Take(WebUrls(web_results), max_urls)
    ELSE "AttributeError"

\* line 184: visual_content_capture.capture_screenshots(selected_urls, session_id)
CaptureScreenshots(selected_urls, session_id) ==
    IF "capture_screenshots" \in VisualContentCaptureMethods
    THEN [successful_captures |-> Len(selected_urls),
          successful_captures_paths |-> selected_urls]
    ELSE "AttributeError"

\* lines 180-196: the capture phase, inside a try of its own
CapturePhase(d, selected_urls) ==
    IF selected_urls = <<>>
    THEN [d EXCEPT !.visual_content = [success |-> FALSE, error |-> "no url"]]
    ELSE IF CaptureScreenshots(selected_urls, d.session_id) = "AttributeError"
    THEN [d EXCEPT !.visual_content = [success |-> FALSE, error |-> "AttributeError"],
                   !.statistics.screenshot_count = 0]
    ELSE [d EXCEPT
            !.visual_content = CaptureScreenshots(selected_urls, d.session_id),
            !.statistics.screenshot_count =
                CaptureScreenshots(selected_urls, d.session_id).successful_captures,
            !.screenshots =
                CaptureScreenshots(selected_urls, d.session_id).successful_captures_paths]

\* lines 198-257: extracted_content and the final statistics
Consolidate(d) ==
    LET content ==
            WebUrls(d.web_search_data)
            \o d.social_media_data.all_platforms_data.platforms
            \o (IF d.trends_data.success THEN d.trends_data.trends ELSE <<>>)
            \o (IF d.supadata_results.success THEN d.supadata_results.posts ELSE <<>>)
    IN [d EXCEPT !.extracted_content = content,
                 !.statistics.total_sources = Len(content)]

\* lines 259-271: the document written to massive_data_collected.json, the
\* report written by _generate_collection_report, the document handed to
\* salvar_etapa
Persist(d) ==
    <<[to |-> "massive_data_collected.json", value |-> d],
      [to |-> "relatorio_coleta_detalhado.json", value |-> d.statistics],
      [to |-> "salvar_etapa", value |-> d]>>

\* lines 176-278: URL selection; were it to return, capture, consolidation,
\* the writes and the return of the document.  select_top_urls is not a
\* method of VisualContentCapture: line 178 raises AttributeError.
CollectPhase5 ==
    /\ mpc = "phase5"
    /\ LET selected_urls == SelectTopUrls(massive_data.web_search_data, 8)
       IN IF selected_urls = "AttributeError"
          THEN /\ phases' = Append(phases, "url_selection")
               /\ RaiseInPhase("url_selection", "AttributeError")
               /\ UNCHANGED <<massive_data, storage, mret>>
          ELSE LET d == Consolidate(CapturePhase(massive_data, selected_urls))
               IN /\ phases' = phases \o <<"url_selection", "capture", "consolidation">>
                  /\ massive_data' = d
                  /\ storage' = storage \o Persist(d)
                  /\ mret' = d
                  /\ mpc' = "returned"
                  /\ UNCHANGED <<failed, mexc>>
    /\ UNCHANGED outsideCollect

\* lines 280-283: the outer except hands the exception to salvar_erro and
\* returns an error value; collect_comprehensive_data returns that value
CollectExcept ==
    /\ mpc = "except"
    /\ storage' = Append(storage, [to |-> "salvar_erro", value |-> mexc])
    /\ mret' = [error |-> "Falha na coleta massiva de dados", details |-> mexc]
    /\ mpc' = "returned"
    /\ UNCHANGED <<massive_data, phases, failed, mexc, outsideCollect>>

InitCollectSpec ==
    /\ InitPool({}, {0}) /\ InitTasks /\ InitThreads /\ InitRun /\ InitOther

NextCollect ==
    \/ StartCollection
    \/ CollectPhase1
    \/ CollectPhase2
    \/ CollectPhase3
    \/ CollectPhase4
    \/ CollectPhase5
    \/ CollectExcept

SpecCollect == InitCollectSpec /\ [][NextCollect]_vars

(***************************************************************************)
(* SpecModules: one call of EnhancedModuleProcessor.generate_all_modules   *)
(***************************************************************************)
outsideModules ==
    <<poolVars, taskVars, threadVars, runVars, histVars, fnVars, navVars, capVars,
      colVars, nested, wf>>

\* self.modules_config, lines 32-135 of enhanced_module_processor.py: the
\* keys in the order of the dict
ModulesConfig ==
    <<"anti_objecao", "avatars", "concorrencia", "drivers_mentais", "funil_vendas",
      "insights_mercado", "palavras_chave", "plano_acao", "posicionamento",
      "pre_pitch", "predicoes_futuro", "provas_visuais", "metricas_conversao",
      "estrategia_preco", "canais_aquisicao", "cronograma_lancamento",
      "cpl_completo">>

\* the modules of a processor configured with the last MaxModules entries
Configured ==
    SubSeq(ModulesConfig, Len(ModulesConfig) - MaxModules + 1, Len(ModulesConfig))

\* lines 150-157: the results at the start
NewModuleResults ==
    [successful_modules |-> 0,
     failed_modules |-> 0,
     modules_generated |-> <<>>,
     modules_failed |-> <<>>,
     total_modules |-> Len(Configured)]

\* what the body of the try of lines 165-205 can do for one module: the
\* prompt, the generation (create_devastating_cpl_protocol for
\* cpl_completo, the AI manager otherwise) and the writes all succeed, or
\* one of them raises
ModuleOutcomes == {"ok", "error"}

\* lines 202-203: the module is counted and listed as generated
ModuleGenerated(results, module_name) ==
    [results EXCEPT !.successful_modules = @ + 1,
                    !.modules_generated = Append(@, module_name)]

\* lines 211-215: the module is counted and listed as failed
ModuleFailed(results, module_name) ==
    [results EXCEPT !.failed_modules = @ + 1,
                    !.modules_failed =
                        Append(@, [module |-> module_name, error |-> "error"])]

\* a loop that a failure ends
AbortOnFailure(i) == Len(Configured) + 1

\* the except clause of line 207 is inside the body of the for of line
\* 164: the loop goes on with the next module
AfterFailure(i) == i + 1

\* after module i: the next module, or the report of line 219
AfterModule(j) == IF j <= Len(Configured) THEN "loop" ELSE "report"

\* lines 140-161: the base data, the results and the module directory;
\* mkdir can raise (outside any try)
GenerateAllModules ==
    /\ gen.pc = "idle"
    /\ \E mkdir \in {"ok", "error"} :
          gen' = IF mkdir = "ok"
                 THEN [gen EXCEPT !.pc = AfterModule(1), !.i = 1,
                                  !.results = NewModuleResults]
                 ELSE [gen EXCEPT !.pc = "raised", !.results = NewModuleResults]
    /\ UNCHANGED outsideModules

\* lines 164-216: one pass of the loop
GenerateModule ==
    /\ gen.pc = "loop"
    /\ \E outcome \in ModuleOutcomes :
          LET module_name == Configured[gen.i]
              j == IF outcome = "ok" THEN gen.i + 1 ELSE AfterFailure(gen.i)
          IN gen' = [pc |-> AfterModule(j),
                     i |-> j,
                     results |-> IF outcome = "ok"
                                 THEN ModuleGenerated(gen.results, module_name)
                                 ELSE ModuleFailed(gen.results, module_name),
                     attempts |-> Append(gen.attempts, module_name),
                     errors |-> IF outcome = "ok" THEN gen.errors
                                ELSE Append(gen.errors, module_name)]
    /\ UNCHANGED outsideModules

\* lines 218-224: _generate_consolidated_report writes the report (the
\* write can raise) and the results are returned
ConsolidatedReport ==
    /\ gen.pc = "report"
    /\ \E write \in {"ok", "error"} :
          gen' = [gen EXCEPT !.pc = IF write = "ok" THEN "returned" ELSE "raised"]
    /\ UNCHANGED outsideModules

InitModulesSpec ==
    /\ InitPool({}, {0}) /\ InitTasks /\ InitThreads /\ InitRun /\ InitOther

NextModules ==
    \/ GenerateAllModules
    \/ GenerateModule
    \/ ConsolidatedReport

SpecModules == InitModulesSpec /\ [][NextModules]_vars

(***************************************************************************)
(* SpecWorkflow: the requests of start_step1_collection                    *)
(* (routes/enhanced_workflow.py), each starting one daemon thread that     *)
(* runs execute_collection.                                                *)
(***************************************************************************)
outsideWorkflow ==
    <<poolVars, taskVars, threadVars, runVars, histVars, fnVars, navVars, capVars,
      colVars, nested, gen>>

\* the names the module imports, lines 8-23: json is not among them
WorkflowImports ==
    {"logging", "time", "uuid", "asyncio", "os", "glob", "datetime"}

\* a request without segmento: answered 400 at line 43, no thread
RejectedRequest ==
    [pc |-> "rejected", search |-> "", viral |-> "", report |-> "",
     makedirs |-> "", stages |-> <<>>, report_file |-> "none"]

\* lines 69-75 and 131-133: etapa1_iniciada is recorded and the thread is
\* started
StartedRequest ==
    [pc |-> "search", search |-> "", viral |-> "", report |-> "",
     makedirs |-> "", stages |-> <<"etapa1_iniciada">>, report_file |-> "none"]

\* lines 30-142: one request of the route
StartStep1Collection ==
    /\ Len(wf) < MaxRequests
    /\ \E segmento \in {"", "segmento"} :
          wf' = Append(wf, IF segmento = "" THEN RejectedRequest ELSE StartedRequest)
    /\ UNCHANGED outsideWorkflow

\* lines 84-90: execute_massive_real_search returns the document or
\* re-raises (its line 258-260); the finally of line 101 closes the loop
ThreadSearch(i) ==
    /\ wf[i].pc = "search"
    /\ \E outcome \in {"ok", "error"} :
          wf' = [wf EXCEPT ![i].search = outcome,
                           ![i].pc = IF outcome = "ok" THEN "viral" ELSE "except"]
    /\ UNCHANGED outsideWorkflow

\* lines 93-99: analyze_and_capture_viral_content returns or raises
ThreadViralAnalysis(i) ==
    /\ wf[i].pc = "viral"
    /\ \E outcome \in {"ok", "error"} :
          wf' = [wf EXCEPT ![i].viral = outcome,
                           ![i].pc = IF outcome = "ok" THEN "report" ELSE "except"]
    /\ UNCHANGED outsideWorkflow

\* _save_collection_report, lines 465-472: makedirs and open can raise;
\* open creates the file, json.dump raises NameError when json is not
\* imported and leaves the file empty
SaveCollectionReport(makedirs) ==
    IF makedirs = "error" THEN [raised |-> TRUE, report_file |-> "none"]
    ELSE IF "json" \notin WorkflowImports THEN [raised |-> TRUE, report_file |-> "empty"]
    ELSE [raised |-> FALSE, report_file |-> "written"]

\* lines 104-121: the report is generated and saved, and etapa1_concluida
\* is recorded
ThreadReport(i) ==
    /\ wf[i].pc = "report"
    /\ \E makedirs \in {"ok", "error"} :
          LET saved == SaveCollectionReport(makedirs)
          IN wf' = IF saved.raised
                   THEN [wf EXCEPT ![i].report = "ok",
                                   ![i].makedirs = makedirs,
                                   ![i].report_file = saved.report_file,
                                   ![i].pc = "except"]
                   ELSE [wf EXCEPT ![i].report = "ok",
                                   ![i].makedirs = makedirs,
                                   ![i].report_file = saved.report_file,
                                   ![i].stages = Append(@, "etapa1_concluida"),
                                   ![i].pc = "done"]
    /\ UNCHANGED outsideWorkflow

\* lines 123-129: the except of the thread records etapa1_erro
ThreadExcept(i) ==
    /\ wf[i].pc = "except"
    /\ wf' = [wf EXCEPT ![i].stages = Append(@, "etapa1_erro"), ![i].pc = "done"]
    /\ UNCHANGED outsideWorkflow

InitWorkflowSpec ==
    /\ InitPool({}, {0}) /\ InitTasks /\ InitThreads /\ InitRun /\ InitOther

NextWorkflow ==
    \/ StartStep1Collection
    \/ \E i \in DOMAIN wf : ThreadSearch(i)
    \/ \E i \in DOMAIN wf : ThreadViralAnalysis(i)
    \/ \E i \in DOMAIN wf : ThreadReport(i)
    \/ \E i \in DOMAIN wf : ThreadExcept(i)

SpecWorkflow == InitWorkflowSpec /\ [][NextWorkflow]_vars

(***************************************************************************)
(* Claims                                                                  *)
(***************************************************************************)
PoolSize(p) == Len(api_keys[p])

\* C1 (SpecPool): round-robin.  For every provider with a pool of k > 0
\* credentials the i-th call of get_next_api_key returns credential
\* (i mod k) of the pool (i counted from 0), and the cursor and the rotation
\* counter have advanced once per call, whatever became of the requests the
\* credentials were used for.
C1_RoundRobin ==
    \A p \in DOMAIN api_keys :
        /\ \A i \in 1..Len(issued[p]) :
               issued[p][i] = api_keys[p][((i - 1) % PoolSize(p)) + 1]
        /\ key_indices[p] = Len(issued[p]) % PoolSize(p)
        /\ (Len(issued[p]) > 0 =>
               p \in DOMAIN api_rotations /\ api_rotations[p] = Len(issued[p]))

\* a pool of several credentials has been issued more than once around,
\* and the last request made with one of its credentials failed
C1_Witness ==
    \E p \in DOMAIN api_keys :
        /\ PoolSize(p) >= 2
        /\ Len(issued[p]) > PoolSize(p)
        /\ last # None /\ last.provider = p /\ ~last.ret.success

\* the number of times credential j of provider p was returned
TimesIssued(p, j) ==
    Cardinality({i \in 1..Len(issued[p]) : issued[p][i] = api_keys[p][j]})

\* C2 (SpecThreads): rotation is atomic under concurrent callers.  The read
\* of the cursor and its increment are one step, so no two calls are served
\* from the same cursor position: once every call has returned, the cursor
\* equals n mod k and the rotation counter equals n, n being the number of
\* calls made for the provider, and no credential was returned more than
\* once more often than another.
C2_AtomicRotation ==
    (\A t \in Threads : tpc[t] = "idle") =>
        \A p \in DOMAIN api_keys :
            /\ key_indices[p] = Len(issued[p]) % PoolSize(p)
            /\ (Len(issued[p]) > 0 =>
                   p \in DOMAIN api_rotations
                   /\ api_rotations[p] = Len(issued[p]))
            /\ \A j1, j2 \in 1..PoolSize(p) :
                   TimesIssued(p, j1) <= TimesIssued(p, j2) + 1

CursorInRange ==
    \A p \in DOMAIN api_keys :
        /\ p \in DOMAIN key_indices
        /\ 0 <= key_indices[p]
        /\ key_indices[p] < PoolSize(p)

WrapsToZero ==
    \A t \in Threads :
        (Advance(t) /\ tidx[t] = PoolSize(tprov[t]) - 1)
            => key_indices'[tprov[t]] = 0

\* C3 (SpecThreads): in every reachable state the cursor of every provider
\* that has credentials is within [0, len), and advancing from the last
\* index wraps to 0.
C3_CursorInRange == []CursorInRange /\ [][WrapsToZero]_vars

\* a thread has just advanced a cursor from the last index of a pool of
\* several credentials
C3_Witness ==
    \E t \in Threads :
        /\ tpc[t] = "stat_init"
        /\ PoolSize(tprov[t]) >= 2
        /\ tidx[t] = PoolSize(tprov[t]) - 1
        /\ key_indices[tprov[t]] = 0

C4_NoCredentialStep ==
    \A p \in KeyedAdapters :
        (AdapterStart(p) /\ ~HasPool(p)) =>
            /\ GetNextApiKey(p) = None
            /\ UNCHANGED <<key_indices, api_rotations, issued>>
            /\ task'[p].st = "idle"
            /\ last'.provider = p
            /\ ~last'.ret.success
            /\ "error" \in DOMAIN last'.ret
            /\ \A q \in KeyedAdapters \ {p} : task'[q] = task[q]

\* C4 (SpecPool): for a provider without credentials get_next_api_key
\* returns None and changes no cursor and no counter; the adapter issues no
\* request and returns a failure value; the other adapters are not touched.
C4_NoCredentialDisables == [][C4_NoCredentialStep]_vars

\* an adapter without credentials has returned its failure while another
\* adapter's request is in flight
C4_Witness ==
    /\ last # None
    /\ ~HasPool(last.provider)
    /\ last.ret = Failure("no_key")
    /\ \E q \in KeyedAdapters : task[q].st = "inflight"

(***************************************************************************)
(* Claims about execute_massive_real_search (Spec)                         *)
(***************************************************************************)
\* the handling of the answer resp fails inside the adapter of p
RequestFails(p, resp) ==
    \/ resp.kind # "ok"
    \/ /\ p \in {"FIRECRAWL", "JINA"}
       /\ ExtractSearchResultsFromContent(p, resp.n) = "NameError"

FailureShape(ret) ==
    /\ "success" \in DOMAIN ret
    /\ ~ret.success
    /\ "error" \in DOMAIN ret

C5_Step ==
    /\ FailureShape(SearchAlibabaWebsailor)
    /\ \A p \in KeyedAdapters :
           (TaskBegin(p) /\ NoCredential(p, GetNextApiKey(p)))
               => FailureShape(task'[p].ret)
    /\ \A p \in KeyedAdapters, resp \in Responses :
           (/\ TaskAnswer(p)
            /\ task'[p] = AnswerTask(task[p], p, resp)
            /\ task'[p].st = "done"
            /\ RequestFails(p, resp))
               => FailureShape(task'[p].ret)

\* C5 (Spec): no adapter raises past its boundary; whenever an adapter
\* returns after a missing credential, a transport error, a non-200 status,
\* an unexpected response shape or a failure while parsing the content, the
\* value it returns has success false and an error field.
C5_AdaptersReturnFailure == [][C5_Step]_vars

AfterWebWave == pc \in {"phase3", "social_wave", "phase4", "phase6", "returned"}

AfterSocialWave == pc \in {"phase4", "phase6", "returned"}

Started(order) == IF pc = "idle" THEN {} ELSE Range(Enabled(order))

Succeeded(p) == task[p].st = "done" /\ task[p].ret.success

\* the records a started adapter that succeeded handed to the orchestrator
Contribution(p) == IF Succeeded(p) THEN task[p].ret.results ELSE <<>>

\* C6 (Spec): fan-out failure isolation.  The orchestrator goes on after a
\* wave only when every adapter started in it has completed or failed, and
\* the merged results are the results of the succeeding adapters, complete
\* and unaltered, whatever the other adapters of the wave did.
C6_FailureIsolation ==
    /\ AfterWebWave =>
          /\ \A p \in Started(WebOrder) : task[p].st = "done"
          /\ doc.web_results =
                 Contribution("FIRECRAWL") \o Contribution("JINA")
                 \o Contribution("GOOGLE") \o Contribution("EXA")
                 \o Contribution("SERPER")
    /\ AfterSocialWave =>
          /\ \A p \in Started(SocialOrder) : task[p].st = "done"
          /\ doc.youtube_results = Contribution("YOUTUBE")

\* a run has returned in which one web adapter failed on its request and
\* another one of the same wave contributed results
C6_Witness ==
    /\ pc = "returned"
    /\ \E p, q \in Started(WebOrder) :
           /\ task[p].st = "done" /\ ~task[p].ret.success
           /\ task[p].ret.error = "exception"
           /\ Succeeded(q) /\ task[q].ret.results # <<>>
           /\ doc.web_results # <<>>

\* the providers whose adapter returned success in the current run
SucceededProviders ==
    {p \in KeyedAdapters : Succeeded(p)}
    \cup (IF SearchAlibabaWebsailor.success THEN {"ALIBABA_WEBSAILOR"} ELSE {})

FailedProviders ==
    {p \in KeyedAdapters : task[p].st = "done" /\ ~task[p].ret.success}

\* C7 (Spec): after the run has returned, providers_used is exactly the set
\* of providers whose adapter returned success in the run.
C7_ProvidersUsedExact ==
    pc = "returned" => Range(doc.providers_used) = SucceededProviders

RECURSIVE ResultCount(_)
ResultCount(ps) ==
    IF ps = {} THEN 0
    ELSE LET p == CHOOSE p \in ps : TRUE
         IN Len(Contribution(p)) + ResultCount(ps \ {p})

\* C8 (Spec): when at least one provider succeeds and others fail, the
\* returned document carries success true, providers_used lists the
\* succeeded providers, total_sources is the sum of their result counts and
\* unique_urls is at most that sum.
C8_PartialSuccess ==
    (pc = "returned" /\ SucceededProviders # {} /\ FailedProviders # {}) =>
        /\ "success" \in DOMAIN doc
        /\ doc.success = TRUE
        /\ doc.statistics.total_sources = ResultCount(SucceededProviders)
        /\ doc.statistics.unique_urls <= doc.statistics.total_sources

\* C9 (Spec): with no provider enabled the run returns a document with
\* success false, empty web, social and video results and an error reason.
C9_ZeroProviders ==
    (pc = "returned" /\ DOMAIN api_keys = {} /\ ~SearchAlibabaWebsailor.success) =>
        /\ doc.web_results = <<>>
        /\ doc.social_results = <<>>
        /\ doc.youtube_results = <<>>
        /\ "success" \in DOMAIN doc
        /\ doc.success = FALSE
        /\ "error" \in DOMAIN doc

\* the key of deduplication: case, scheme and trailing slash normalized
NormalizeUrl(url) == url.id

MergedResults == doc.web_results \o doc.social_results \o doc.youtube_results

\* C10 (Spec): after the run has returned, no two records of the merged
\* result set have the same normalized URL.
C10_NoDuplicateUrls ==
    pc = "returned" =>
        \A i, j \in DOMAIN MergedResults :
            (i # j /\ MergedResults[i].url # NoUrl /\ MergedResults[j].url # NoUrl)
                => NormalizeUrl(MergedResults[i].url) # NormalizeUrl(MergedResults[j].url)

\* the order in which execute_massive_real_search merges the providers of
\* phases 1 and 2: the deep navigation, then the web tasks as appended
PriorityOrder == <<"ALIBABA_WEBSAILOR">> \o WebOrder

Priority(p) == CHOOSE i \in DOMAIN PriorityOrder : PriorityOrder[i] = p

\* the index of the first record of rs with the normalized URL of rs[i]
FirstSeen(rs, i) ==
    CHOOSE k \in DOMAIN rs :
        /\ NormalizeUrl(rs[k].url) = NormalizeUrl(rs[i].url)
        /\ \A j \in 1..(k - 1) : NormalizeUrl(rs[j].url) # NormalizeUrl(rs[i].url)

\* C11 (Spec): whatever the order in which the adapters of the web wave
\* returned, the records are merged in the fixed provider priority order
\* (deep navigation, FIRECRAWL, JINA, GOOGLE, EXA, SERPER): the merged list
\* never holds a record of a lower-priority provider before one of a
\* higher-priority provider, and the first occurrence of every URL is the
\* one of the highest-priority provider that returned it.
C11_PriorityOrderMerge ==
    AfterWebWave =>
        /\ \A i, j \in DOMAIN doc.web_results :
               i < j => Priority(doc.web_results[i].source)
                            <= Priority(doc.web_results[j].source)
        /\ \A i \in DOMAIN doc.web_results :
               Priority(doc.web_results[FirstSeen(doc.web_results, i)].source)
                   <= Priority(doc.web_results[i].source)

\* the web wave was merged after a lower-priority adapter had returned
\* first, with a URL that a higher-priority adapter returned as well
C11_Witness ==
    /\ pc = "phase3"
    /\ first_returned \in {"EXA", "SERPER"}
    /\ Succeeded("GOOGLE")
    /\ \E i, j \in DOMAIN doc.web_results :
           /\ i < j
           /\ doc.web_results[i].source = "GOOGLE"
           /\ doc.web_results[j].source = first_returned
           /\ NormalizeUrl(doc.web_results[i].url) = NormalizeUrl(doc.web_results[j].url)

\* C13 (Spec): statistics.api_calls_made of the document a run returns is
\* the number of credentials the pool issued during that run, also when the
\* orchestrator has run sessions before.
C13_ApiCallsPerSession ==
    pc = "returned" =>
        doc.statistics.api_calls_made = IssuedTotal - issued_at_start

\* The pages the deep-navigation agent extracts when it is asked the query
\* of the run: the web holds one page it can extract.
AgentSources == <<[url |-> [id |-> 301, form |-> "plain"], quality_score |-> 70]>>

\* C32 (Spec): the deep-navigation adapter is invoked before every other
\* adapter and its results are merged at once.  Whenever the agent extracts
\* at least one source, the returned web_results begins with one record per
\* extracted source and providers_used contains ALIBABA_WEBSAILOR.
C32_DeepNavigationFirst ==
    /\ pc = "phase1" => \A p \in KeyedAdapters : task[p].st = "idle"
    /\ (pc = "returned" /\ AgentSources # <<>>) =>
          /\ Len(doc.web_results) >= Len(AgentSources)
          /\ \A i \in DOMAIN AgentSources :
                 doc.web_results[i].url = AgentSources[i].url
          /\ "ALIBABA_WEBSAILOR" \in Range(doc.providers_used)

\* C35 (Spec): statistics.total_sources of the returned document equals the
\* sum of the result counts of the providers that succeeded in the run, and
\* statistics.unique_urls never exceeds statistics.total_sources.
C35_TotalSources ==
    /\ pc = "returned" =>
          doc.statistics.total_sources = ResultCount(SucceededProviders)
    /\ doc # None => doc.statistics.unique_urls <= doc.statistics.total_sources

\* a run has returned in which a web provider and the video provider
\* contributed, another provider failed, and two records share a URL
C35_Witness ==
    /\ pc = "returned"
    /\ \E p \in Range(WebOrder) : Succeeded(p) /\ task[p].ret.results # <<>>
    /\ Succeeded("YOUTUBE") /\ task["YOUTUBE"].ret.results # <<>>
    /\ FailedProviders # {}
    /\ 0 < doc.statistics.unique_urls
    /\ doc.statistics.unique_urls < doc.statistics.total_sources

C34_Step ==
    \A p \in KeyedAdapters, resp \in Responses :
        (/\ TaskAnswer(p)
         /\ resp.kind = "http_error"
         /\ task'[p] = AnswerTask(task[p], p, resp)
         /\ task'[p].st = "done")
            => /\ task'[p].ret = Failure("HTTP")
               /\ pc' = pc

\* C34 (Spec): whenever a provider answers an adapter's request with a
\* status other than success, the adapter returns success false with the
\* error of the status, and the session goes on; this holds for every
\* adapter, the one that issues several requests per query included.
C34_HttpErrorReported == [][C34_Step]_vars

\* C33 (Spec): the social/video wave starts only after every adapter of
\* the web wave has completed or failed; virality classification runs only
\* after the social/video wave has completed, over exactly the merged
\* social and video results; capture runs only after classification; the
\* statistics are computed last.
C33_PhaseOrder ==
    /\ (\E p \in Range(Enabled(SocialOrder)) : task[p].st # "idle") =>
          \A w \in Range(Enabled(WebOrder)) : task[w].st = "done"
    /\ pc \in {"phase6", "returned"} =>
          /\ \A p \in Range(Enabled(SocialOrder)) : task[p].st = "done"
          /\ doc.viral_content =
                 IdentifyViralContent(doc.youtube_results \o doc.social_results)
    /\ pc \in {"phase1", "phase2", "web_wave", "phase3", "social_wave", "phase4"} =>
          /\ doc.viral_content = <<>>
          /\ doc.screenshots_captured = <<>>
    /\ pc \in {"phase1", "phase2", "web_wave", "phase3", "social_wave", "phase4",
                "phase6"} =>
          doc.statistics = NewDocument(doc.session_id).statistics
    /\ pc = "returned" => doc.statistics = Statistics(doc)

\* a run has returned in which both waves had an adapter that contributed
C33_Witness ==
    /\ pc = "returned"
    /\ Enabled(WebOrder) # <<>>
    /\ Enabled(SocialOrder) # <<>>
    /\ doc.web_results # <<>>
    /\ doc.youtube_results # <<>>
    /\ doc.statistics.total_sources = Len(doc.web_results) + Len(doc.youtube_results)

\* the records of the social wave, videos first
SocialItems == doc.youtube_results \o doc.social_results

\* the engagement the platform counts for the item reaches a threshold
CrossesThreshold(item) ==
    \/ Engagement(item.url).likes >= 1000
    \/ Engagement(item.url).comments >= 100
    \/ Engagement(item.url).shares >= 50

\* the URLs line 659 requested a capture for in the run
CaptureAttempts ==
    IF doc.viral_content = <<>> THEN <<>>
    ELSE CaptureViralScreenshots(doc.viral_content, doc.session_id).attempted

\* C23 (Spec): in a run, a social or video item whose engagement crosses a
\* threshold (likes 1500, comments 10, shares 0) is classified viral and
\* triggers exactly one capture attempt; an item that crosses no threshold
\* triggers none.
C23_ViralItemCapturedOnce ==
    pc = "returned" =>
        \A i \in DOMAIN SocialItems :
            LET item == SocialItems[i]
                n == Cardinality({k \in DOMAIN CaptureAttempts :
                                     CaptureAttempts[k] = item.url})
            IN IF CrossesThreshold(item)
               THEN (\E k \in DOMAIN doc.viral_content : doc.viral_content[k] = item)
                    /\ n = 1
               ELSE n = 0

(***************************************************************************)
(* Claims about the functions called directly (SpecFn)                     *)
(***************************************************************************)
Called(name) == fn # None /\ fn.name = name

\* C12 (SpecFn): deduplication is idempotent.  For every result list R the
\* set of unique URLs of R followed by R is the set of unique URLs of R, and
\* so is its count.
C12_DedupIdempotent ==
    Called("unique_urls") =>
        /\ out.twice = out.once
        /\ Cardinality(out.twice) = Cardinality(out.once)

\* the list holds the same URL twice and a record without URL
C12_Witness ==
    /\ Called("unique_urls")
    /\ \E i, j, k \in DOMAIN fn.all_results :
           /\ i # j
           /\ fn.all_results[i].url = fn.all_results[j].url
           /\ fn.all_results[i].url # NoUrl
           /\ fn.all_results[k].url = NoUrl
    /\ Cardinality(out.once) = 1

\* C14 (SpecFn): the score _calculate_content_quality returns is within
\* [0, 100] for every content length, every keyword list and every URL,
\* preferred, blocked, both or neither.
C14_QualityInRange ==
    Called("_calculate_content_quality") => (0 <= out /\ out <= 100)

\* the points of a long content on a preferred domain with many keyword
\* matches exceed 100 and the score returned is 100
C14_Witness ==
    /\ Called("_calculate_content_quality")
    /\ QualityPoints(fn.content, fn.url, fn.context) > 100
    /\ InDomains(fn.url, PreferredDomains)
    /\ out = 100

\* C15 (SpecFn): for empty content _calculate_content_quality returns 0,
\* for every URL and every keyword list.
C15_EmptyContentScoresZero ==
    (Called("_calculate_content_quality") /\ fn.content.length = 0) => out = 0

\* the k-th smallest element of the set of numbers S
KthSmallest(S, k) == CHOOSE i \in S : Cardinality({j \in S : j < i}) = k - 1

\* the numbers of the credentials of provider p set in environment e
SetNumbers(e, p) == {k \in 0..MaxNumbered : <<p, k>> \in e}

\* C38 (SpecFn): the credential pool _load_all_api_keys loads for a
\* provider is the base credential (when set) followed by the numbered
\* credentials in increasing number, and it contains every numbered
\* credential set in the environment; a provider with no credential at all
\* has no pool entry and no cursor.
C38_PoolHoldsEverySetKey ==
    Called("_load_all_api_keys") =>
        \A p \in LoadedProviders :
            IF SetNumbers(fn.env, p) = {}
            THEN p \notin DOMAIN out.api_keys /\ p \notin DOMAIN out.key_indices
            ELSE /\ p \in DOMAIN out.api_keys
                 /\ p \in DOMAIN out.key_indices
                 /\ Len(out.api_keys[p]) = Cardinality(SetNumbers(fn.env, p))
                 /\ \A i \in DOMAIN out.api_keys[p] :
                        out.api_keys[p][i] = <<p, KthSmallest(SetNumbers(fn.env, p), i)>>

Clamp(x, low, high) == IF x < low THEN low ELSE IF x > high THEN high ELSE x

\* base: 40 above 1000, 20 above 500 up to 1000, 10 above 100 up to 500
BandBase(length) ==
    CASE length > 1000 -> 40
      [] length > 500 /\ length <= 1000 -> 20
      [] length > 100 /\ length <= 500 -> 10
      [] OTHER -> 0

\* m: the entries of the context's keyword list that occur in the content
KeywordsFound(content, context) ==
    IF "keywords" \notin DOMAIN context THEN 0
    ELSE Cardinality({i \in DOMAIN context.keywords :
                         Occurs(context.keywords[i], content)})

\* C36 (SpecFn): _calculate_content_quality returns
\* clamp(base + 5*m + p - b, 0, 100): base is 40 for a length above 1000, 20
\* above 500 up to 1000, 10 above 100 up to 500 and 0 otherwise (100, 500
\* and 1000 fall in the lower band), m the number of context keywords found
\* in the content, p is 20 for a preferred domain, b is 30 for a blocked one.
C36_QualityFormula ==
    Called("_calculate_content_quality") =>
        out = Clamp(BandBase(fn.content.length)
                    + 5 * KeywordsFound(fn.content, fn.context)
                    + (IF InDomains(fn.url, PreferredDomains) THEN 20 ELSE 0)
                    - (IF InDomains(fn.url, BlockedDomains) THEN 30 ELSE 0),
                    0, 100)

\* a content of exactly 1000 characters with one keyword found, on a URL
\* that is both preferred and blocked: 20 + 5 + 20 - 30
C36_Witness ==
    /\ Called("_calculate_content_quality")
    /\ fn.content.length = 1000
    /\ KeywordsFound(fn.content, fn.context) = 1
    /\ InDomains(fn.url, PreferredDomains)
    /\ InDomains(fn.url, BlockedDomains)
    /\ out = 15

\* the record is flagged: a missing metric counts as 0
Flagged(item) ==
    \/ ("likes" \in DOMAIN item /\ item.likes >= 1000)
    \/ ("comments" \in DOMAIN item /\ item.comments >= 100)
    \/ ("shares" \in DOMAIN item /\ item.shares >= 50)

FlaggedPositions(items) == {i \in DOMAIN items : Flagged(items[i])}

C21_ViralMonotonic ==
    (Called("_identify_viral_content_raised") /\ out.before = <<fn.item>>) =>
        out.after = <<fn.raised>>

\* a record flagged by one metric sitting on its threshold stays flagged
\* when that metric is raised, and when a metric it lacks is raised
C21_Witness ==
    /\ Called("_identify_viral_content_raised")
    /\ fn.item \in {Item(1000, 99, Missing), Item(Missing, 100, 49)}
    /\ fn.metric = "likes"
    /\ fn.raised.likes \in {1, 1001}
    /\ out.before = <<fn.item>>
    /\ out.after = <<fn.raised>>

(***************************************************************************)
(* Claims about the extraction pipeline (SpecNav)                          *)
(***************************************************************************)
StrategyOrder == <<"jina_reader", "exa", "beautifulsoup">>

Rank(method) == CHOOSE i \in DOMAIN StrategyOrder : StrategyOrder[i] = method

AcceptanceThreshold(method) == IF method = "jina_reader" THEN 100 ELSE 50

Extracting == ext # None

ExtractionReturned == ext # None /\ ext.step = "returned"

AnyAccepted == \E i \in DOMAIN attempts : attempts[i].accepted

\* C16 (SpecNav): _extract_content_multi_strategy tries the reader (Jina),
\* the secondary content API (Exa) and the raw HTML parse in this order and
\* stops at the first whose content exceeds its threshold (more than 100
\* characters for the reader, more than 50 for a fallback, measured as the
\* strategy measures its text): nothing is attempted after an acceptance, a
\* fallback is attempted only when every earlier strategy was unavailable or
\* failed, and extraction_method names the accepting strategy.
C16_StrategyChain ==
    Extracting =>
        /\ \A i, j \in DOMAIN attempts :
               i < j => Rank(attempts[i].method) < Rank(attempts[j].method)
        /\ \A i \in DOMAIN attempts :
               /\ attempts[i].accepted <=>
                      (attempts[i].got_text
                       /\ attempts[i].measured > AcceptanceThreshold(attempts[i].method))
               /\ attempts[i].accepted => i = Len(attempts)
               /\ (attempts[i].method # "jina_reader" /\ JinaApiKey) =>
                      \E k \in 1..(i - 1) : attempts[k].method = "jina_reader"
        /\ ExtractionReturned =>
               IF AnyAccepted
               THEN /\ ext.ret # None
                    /\ ext.ret.extraction_method = attempts[Len(attempts)].method
               ELSE ext.ret = None

\* the reader answered 200 with too little content, the secondary API was
\* accepted and the HTML parse was not attempted
C16_Witness ==
    /\ ExtractionReturned
    /\ Len(attempts) = 2
    /\ attempts[1] = Attempt("jina_reader", TRUE, 100, FALSE)
    /\ attempts[2].method = "exa" /\ attempts[2].accepted
    /\ ext.ret # None /\ ext.ret.extraction_method = "exa"

\* the strategy an entry of methods_tried stands for
NoteNames(note, method) ==
    CASE note \in {"Jina (Erro)", "Jina (status)", "jina_reader"} -> method = "jina_reader"
      [] note = "exa" -> method = "exa"
      [] note = "beautifulsoup" -> method = "beautifulsoup"
      [] OTHER -> method \in {"exa", "beautifulsoup"}

\* C17 (SpecNav): for every extraction methods_tried holds one entry per
\* strategy attempted, in the order attempted, intermediate failures
\* included, and when a result is accepted the last entry is the accepting
\* strategy.
C17_AttemptsRecorded ==
    ExtractionReturned =>
        /\ Len(ext.methods_tried) = Len(attempts)
        /\ \A i \in DOMAIN attempts :
               i \in DOMAIN ext.methods_tried
               /\ NoteNames(ext.methods_tried[i], attempts[i].method)
        /\ ext.ret # None =>
               /\ ext.methods_tried # <<>>
               /\ ext.methods_tried[Len(ext.methods_tried)] = ext.ret.extraction_method
               /\ ext.ret.methods_tried = ext.methods_tried

C18_Step ==
    (ExtractReturn /\ ~AnyAccepted) =>
        /\ ext'.ret = None
        /\ all_content' = all_content
        /\ queue' = queue
        /\ npc' = "level1"

C18_Continues ==
    (npc = "level1" /\ queue # <<>>) => ENABLED NextResult

\* C18 (SpecNav): when every extraction strategy fails for a URL,
\* _extract_content_multi_strategy returns None without raising, the URL
\* adds no record to the collected corpus, and the navigation goes on with
\* the remaining search results.
C18_ExhaustedUrlDropped == []C18_Continues /\ [][C18_Step]_vars

\* all three strategies failed for a URL, nothing was returned or collected
\* for it, and a search result with a URL is still to be processed
C18_Witness ==
    /\ ExtractionReturned
    /\ npc = "level1"
    /\ Len(attempts) = 3
    /\ ~AnyAccepted
    /\ ext.ret = None
    /\ all_content = <<>>
    /\ queue # <<>> /\ Head(queue).url # NoLink

\* C19 (SpecNav): for every accepted extraction the independent quality
\* score is stored next to the heuristic quality_score, which keeps its
\* value, and a screenshot is requested for the URL exactly when the
\* independent score exceeds 80.
C19_PredictiveScoreGate ==
    (ExtractionReturned /\ ext.ret # None) =>
        /\ "quality_score_predictive" \in DOMAIN ext.ret
        /\ ext.ret.quality_score = ext.content_data.quality_score
        /\ (ext.url \in Range(captures)) <=> (ext.ret.quality_score_predictive > 80)

\* C31 (SpecNav): navigate_and_research_deep makes a bounded number of
\* nested calls for every depth_levels.  A call with depth_levels of 1 makes
\* none, every nested call is made with depth_levels = 1 (and so makes none
\* itself), and one top-level call makes at most 3 of them.
C31_BoundedRecursion ==
    /\ Len(nested) <= 3
    /\ \A i \in DOMAIN nested : nested[i].depth_levels = 1
    /\ depth_levels = 1 => nested = <<>>

\* a call with depth_levels = 4 that extracted a source has returned after
\* three nested calls, one per related query
C31_Witness ==
    /\ npc = "done"
    /\ depth_levels = 4
    /\ Len(nested) = 3
    /\ {nested[i].related_query : i \in DOMAIN nested} = Range(GenerateRelatedQueries)

\* the sources level 1 extracted: the entries of all_content that are not
\* the value of a nested call
Level1Sources == SelectSeq(all_content, LAMBDA c : "related_query" \notin DOMAIN c)

\* C37 (SpecNav): when navigate_and_research_deep is called with
\* depth_levels >= 3 and level 1 extracted at least one source, the research
\* returned accounts for the level-1 sources (total_documents is at least
\* their number) and is not the emergency fallback, whatever the nested
\* searches returned.
C37_Level1SourcesKept ==
    (npc = "done" /\ depth_levels >= 3 /\ Level1Sources # <<>>) =>
        /\ research.total_documents >= Len(Level1Sources)
        /\ "status" \notin DOMAIN research

(***************************************************************************)
(* Claims about the screenshot capture (SpecCapture)                       *)
(***************************************************************************)
\* the last capture_screenshot call of thread t has returned
HasReturned(t) == cap[t].pc = "idle" /\ "ret" \in DOMAIN cap[t]

AllIdle == \A t \in CapThreads : cap[t].pc = "idle"

\* C22 (SpecCapture): capture is attempted at most once per (url, session).
\* A capture_screenshot call for a pair that an earlier call of the session
\* has already captured launches no browser and writes no file.
C22_CaptureOncePerUrlSession ==
    \A t \in CapThreads :
        (HasReturned(t) /\ cap[t].cached) => (~cap[t].launched /\ ~cap[t].wrote)

\* C24 (SpecCapture): every browser instance a capture_screenshot call
\* launches is torn down before the call returns, on every exit path.
\* After calls made one after the other no instance is held (driver is
\* None) and quit has been called on every instance launched.
C24_BrowserTornDown ==
    (AllIdle /\ ~overlapped) =>
        /\ driver = 0
        /\ \A i \in DOMAIN browsers : browsers[i].quit_by # {}

\* C25 (SpecCapture): browser instances are not shared across concurrent
\* captures.  No call navigates, screenshots or quits an instance that
\* another call launched.
C25_NoSharedBrowser ==
    \A i \in DOMAIN browsers :
        (browsers[i].used_by \cup browsers[i].quit_by) \subseteq {browsers[i].launcher}

\* the URLs of the records that carry a non-empty url, in order
UrlsOf(items) ==
    [i \in DOMAIN SelectSeq(items, LAMBDA item : "url" \in DOMAIN item /\ item.url # "") |->
        SelectSeq(items, LAMBDA item : "url" \in DOMAIN item /\ item.url # "")[i].url]

\* C26 (SpecCapture): a failed screenshot attempt is not fatal.
\* capture_screenshot returns a value on every path; a value with success
\* false carries the url and an error; a value with success true is
\* returned only when the file exists and is not empty; in
\* _capture_viral_screenshots the failure of one item does not stop the
\* attempts for the items after it, and the loop returns.
C26_CaptureFailureNotFatal ==
    /\ \A t \in CapThreads :
          /\ cap[t].pc \in {"idle", "setup", "get", "save", "finally", "quit", "clear"}
          /\ HasReturned(t) =>
                /\ cap[t].ret # None
                /\ cap[t].ret.url = cap[t].url
                /\ cap[t].ret.success => cap[t].ret.filesize = "image"
                /\ ~cap[t].ret.success => "error" \in DOMAIN cap[t].ret
    /\ viral # None =>
          viral.returned.attempted = UrlsOf(viral.viral_content)

\* one call returned a failure after it launched a browser, another call
\* returned success for the other URL and its file is an image
C26_Witness ==
    \E t, o \in CapThreads :
        /\ HasReturned(t) /\ HasReturned(o)
        /\ ~cap[t].ret.success /\ cap[t].launched
        /\ cap[o].ret.success /\ cap[o].url # cap[t].url
        /\ files[OutputPath(cap[o].url, cap[o].session)] = "image"
        /\ driver = 0

(***************************************************************************)
(* Claims about the session collector (SpecCollect)                        *)
(***************************************************************************)
\* the phases of the collector in the order of the code; "supadata" and
\* "social" are the two steps of the social augmentation
PhaseOrder ==
    <<"web_search", "trends", "supadata", "social", "url_selection", "capture",
      "consolidation">>

PhasePosition(phase) == CHOOSE i \in DOMAIN PhaseOrder : PhaseOrder[i] = phase

\* the value is a session document, not an error value
IsDocument(v) == "session_id" \in DOMAIN v

\* the field of the document a phase fills
EntryOf(d, phase) ==
    CASE phase = "web_search" -> d.web_search_data
      [] phase = "trends" -> d.trends_data
      [] phase = "supadata" -> d.supadata_results
      [] phase = "social" -> d.social_media_data
      [] OTHER -> d.visual_content

\* the document carries a structured error entry for the phase
ErrorRecorded(d, phase) ==
    /\ EntryOf(d, phase) # None
    /\ "error" \in DOMAIN EntryOf(d, phase)
    /\ ~EntryOf(d, phase).success

\* the positions of storage at which the session document was written
DocumentWrites ==
    {i \in DOMAIN storage : storage[i].to \in {"massive_data_collected.json", "salvar_etapa"}}

\* C27 (SpecCollect): in execute_massive_collection the failure of any one
\* phase is caught and recorded in the session document as a structured
\* error entry, and every later phase still runs.
C27_PhaseFailureIsolated ==
    mpc = "returned" =>
        \A phase \in failed :
            /\ IsDocument(mret)
            /\ ErrorRecorded(mret, phase)
            /\ \A later \in Range(PhaseOrder) :
                   PhasePosition(later) > PhasePosition(phase) => later \in Range(phases)

\* no phase left a successful result in the document
NothingCollected ==
    \A phase \in {"web_search", "trends", "supadata", "social"} :
        EntryOf(massive_data, phase) = None \/ ~EntryOf(massive_data, phase).success

\* C28 (SpecCollect): every run of the collector ends with a persisted
\* session document and never with an unhandled fault; when nothing was
\* collected the document returned and persisted is an emergency document
\* with zero results and an error marker.
C28_AlwaysPersistedDocument ==
    /\ mpc \in {"idle", "phase1", "phase2", "phase3", "phase4", "phase5", "except",
                "returned"}
    /\ mpc = "returned" =>
          /\ IsDocument(mret)
          /\ \E i \in DocumentWrites : storage[i].value = mret
          /\ NothingCollected =>
                /\ mret.statistics.total_sources = 0
                /\ "error" \in DOMAIN mret

\* C29 (SpecCollect): the collector runs web search, trend augmentation,
\* social augmentation, URL selection, capture and consolidation in this
\* order, each after the one before has ended, and the document is
\* persisted only in consolidation, after every other phase.
C29_PhaseOrder ==
    /\ phases = Take(PhaseOrder, Len(phases))
    /\ DocumentWrites # {} => phases = PhaseOrder
    /\ mpc = "returned" => phases = PhaseOrder

\* C30 (SpecCollect): the session document of a run is written to durable
\* storage exactly once, at consolidation, and is what the run holds
\* afterwards.
C30_WrittenOnce ==
    mpc = "returned" =>
        /\ Cardinality(DocumentWrites) = 1
        /\ \A i \in DocumentWrites : storage[i].value = massive_data

(***************************************************************************)
(* Claims about the module processor (SpecModules)                         *)
(***************************************************************************)
ModulesOf(entries) == [k \in DOMAIN entries |-> entries[k].module]

IsPrefix(a, b) == Len(a) <= Len(b) /\ a = SubSeq(b, 1, Len(a))

\* C39 (SpecModules): generate_all_modules isolates module failures.  For
\* every combination of per-module outcomes each configured module is
\* attempted exactly once in configuration order, a failure does not
\* prevent the later modules, each module ends in exactly one of
\* modules_generated and modules_failed, and successful_modules +
\* failed_modules equals total_modules, both counters being the lengths of
\* their lists.
C39_ModuleFailureIsolated ==
    /\ IsPrefix(gen.attempts, Configured)
    /\ gen.pc \in {"report", "returned"} => gen.attempts = Configured
    /\ gen.results # None =>
          LET r == gen.results
              generated == Range(r.modules_generated)
              unsuccessful == Range(ModulesOf(r.modules_failed))
          IN /\ r.successful_modules = Len(r.modules_generated)
             /\ r.failed_modules = Len(r.modules_failed)
             /\ Cardinality(generated) = Len(r.modules_generated)
             /\ Cardinality(unsuccessful) = Len(r.modules_failed)
             /\ generated \cap unsuccessful = {}
             /\ generated \cup unsuccessful = Range(gen.attempts)
             /\ gen.pc \in {"report", "returned"} =>
                    r.successful_modules + r.failed_modules = r.total_modules

\* the call has returned; the first module failed, a later one was
\* generated, and the specialized module failed after it
C39_Witness ==
    /\ gen.pc = "returned"
    /\ gen.results.modules_failed[1].module = Configured[1]
    /\ gen.results.modules_generated # <<>>
    /\ gen.results.failed_modules >= 2
    /\ "cpl_completo" \in Range(ModulesOf(gen.results.modules_failed))

(***************************************************************************)
(* Claims about the workflow threads (SpecWorkflow)                        *)
(***************************************************************************)
TerminalStages == {"etapa1_concluida", "etapa1_erro"}

\* the terminal stage entries the thread of request i has recorded
TerminalEntries(i) == {k \in DOMAIN wf[i].stages : wf[i].stages[k] \in TerminalStages}

\* C40 (SpecWorkflow): every background step started by
\* start_step1_collection records exactly one terminal stage entry,
\* etapa1_concluida or etapa1_erro, never both and never neither once it has
\* ended; etapa1_concluida is recorded whenever the search, the viral
\* analysis and the report generation of the step all succeeded (and the
\* report directory could be made), and only after the collection report
\* has been saved.
C40_OneTerminalStage ==
    \A i \in DOMAIN wf :
        /\ Cardinality(TerminalEntries(i)) <= 1
        /\ wf[i].pc = "done" => Cardinality(TerminalEntries(i)) = 1
        /\ (/\ wf[i].pc = "done"
            /\ wf[i].search = "ok" /\ wf[i].viral = "ok" /\ wf[i].report = "ok"
            /\ wf[i].makedirs = "ok")
               => "etapa1_concluida" \in Range(wf[i].stages)
        /\ "etapa1_concluida" \in Range(wf[i].stages) => wf[i].report_file = "written"

====
